---- MODULE Spec2Model ----
\* Job orchestration core of stock-analysis-app: the approve and re-analyze
\* triggers, the BullMQ queues, the JobStatus tracker and the stock-ranking,
\* stock-analysis, judge-review and format-insights workers, over one
\* sub-sector and its stocks.
\*
\* A worker handler is one action: it applies the handler's writes in source
\* order up to the point where it throws (chosen by the action: a missing
\* JobStatus row makes the first tracker update throw, a transient error can
\* make any later await throw), then the catch block, then the substrate's
\* retry accounting.  A route handler that adds a job and then records its
\* JobStatus is two actions, because a worker may take the job in between.
EXTENDS Integers, Sequences, FiniteSets, TLC

\* ---------------------------------------------------------------- bounds
MaxStocks == 1         \* stocks of the sub-sector in the pipeline model
MaxRankStocks == 6     \* stocks of the sub-sector in the ranking model
MaxApprovals == 2      \* approve requests
MaxReanalyze == 1      \* re-analyze requests
MaxFailures == 1       \* transient errors thrown inside worker handlers
MaxStarts == 2         \* start requests
MaxWrapAttempts == 4   \* largest maxAttempts option given to withRetry
MaxManualStocks == 2   \* stocks of a sub-sector that is re-analysed by hand
MaxCascadeStocks == 6  \* stocks of a sub-sector whose analyses are formatted
MaxPolls == 4          \* polls of the stream
MaxInFlight == 2       \* polls of the stream that overlap

\* ------------------------------------------------------ program constants
MAX_RETRY_ATTEMPTS == 3
TopCount == 5
SectorResearchAttempts == 2
StockRankingAttempts == 3
StockAnalysisAttempts == 1
JudgeReviewAttempts == 3
FormatInsightsAttempts == 3
RetryDelay == 5000
MockSubSectorCount == 2
AiMaxRetries == 3
AiDelayMs == 1000

VARIABLES
  stocks,      \* ids of the Stock rows of the sub-sector
  rank,        \* Stock.rank, 0 = not ranked
  subStatus,   \* SubSector.status
  sa,          \* StockAnalysis rows, the id of a row is its index
  jobs,        \* the jobs of the queues, by job id
  jobStatus,   \* JobStatus rows, by jobId
  nextAuto,    \* next job id the substrate assigns when none is given
  approve,     \* the approve request in flight
  reanalyze,   \* the re-analyze request in flight
  approvals,   \* approve requests still to come
  reanalyses,  \* re-analyze requests still to come
  failures,    \* transient errors still to be thrown inside worker handlers
  thrown,      \* jobError of the last transient error a worker handler caught
  sectors,     \* SectorAnalysis rows, the id of a row is its index
  subSectors,  \* SubSector rows the sector-research worker created
  starts,      \* start requests still to come
  start,       \* the start request in flight
  stream,      \* the event stream of one subscriber
  wrap,        \* the withRetry invocation of the queue module
  ai           \* the withRetry invocation of the AI client

sectorVars == <<sectors, subSectors, starts, start>>

wrapVars == <<wrap, ai>>

streamVars == <<stream>>

pipelineVars == <<stocks, rank, subStatus, sa, approve, reanalyze, approvals,
                  reanalyses>>

vars == <<stocks, rank, subStatus, sa, jobs, jobStatus, nextAuto, approve,
          reanalyze, approvals, reanalyses, failures, thrown, sectorVars,
          streamVars, wrapVars>>

Min(a, b) == IF a < b THEN a ELSE b
Max(a, b) == IF a > b THEN a ELSE b

\* ------------------------------------------------------------ job ids
\* A job id is <<kind, k, n>>: an id assigned by the substrate is
\* <<"auto", k, 0>>, the workers' explicit ids are built below.
AutoJobId(k) == <<"auto", k, 0>>
StockJobId(stockAnalysisId, attemptNumber) ==
  <<"stock", stockAnalysisId, attemptNumber>>
JudgeJobId(stockAnalysisId, attemptNumber) ==
  <<"judge", stockAnalysisId, attemptNumber>>
FormatJobId(stockAnalysisId) == <<"format", stockAnalysisId, 0>>

\* ------------------------------------------------------------ JobStatus tracker
createJobStatus(js, jobId, jobType, relatedId) ==
  js @@ (jobId :> [jobType |-> jobType, relatedId |-> relatedId,
                   status |-> "waiting", progress |-> 0,
                   errorMessage |-> "none"])

\* prisma update addresses one existing row; on a missing row it throws
HasJobStatus(js, jobId) == jobId \in DOMAIN js

markJobActive(js, jobId, progress) ==
  [js EXCEPT ![jobId].status = "active", ![jobId].progress = progress]

updateJobProgress(js, jobId, progress) ==
  [js EXCEPT ![jobId].progress = Min(100, Max(0, progress))]

markJobCompletedAsFailed(js, jobId) ==
  [js EXCEPT ![jobId].status = "failed", ![jobId].progress = 100]

markJobCompleted(js, jobId) ==
  [js EXCEPT ![jobId].status = "completed", ![jobId].progress = 100]

markJobFailed(js, jobId, errorMessage) ==
  [js EXCEPT ![jobId].status = "failed", ![jobId].errorMessage = errorMessage]

\* ------------------------------------------------------------ error handling
\* An error message is the set of the fragments it contains; a fragment is
\* <<text, case>>, so that <<"timeout", "upper">> is the text TIMEOUT.
RateLimitSignals == {"rate limit", "429", "too many requests"}
ValidationSignals == {"400", "bad request", "invalid"}
ApiSignals == {"401", "403", "unauthorized"}
NetworkSignals == {"network", "timeout", "econnrefused", "enotfound"}
JudgeSignals == {"judge reject"}

Signals ==
  RateLimitSignals \cup ValidationSignals \cup ApiSignals \cup NetworkSignals
    \cup JudgeSignals

Digits == {"429", "400", "401", "403"}

Fragments ==
  {<<s, "lower">> : s \in Signals \cup {"boom"}}
    \cup {<<s, "upper">> : s \in (Signals \ Digits) \cup {"boom"}}

\* the messages of at most MaxFragments fragments
MaxFragments == 2

RECURSIVE MessagesOf(_)
MessagesOf(n) ==
  IF n = 0 THEN {{}}
  ELSE LET shorter == MessagesOf(n - 1)
       IN shorter \cup {m \cup {f} : m \in shorter, f \in Fragments}

Messages == MessagesOf(MaxFragments)

\* errorMessage.toLowerCase()
toLowerCase(message) == {<<f[1], "lower">> : f \in message}

\* errorString.includes(signal)
includes(errorString, signal) == <<signal, "lower">> \in errorString

IncludesAny(errorString, signals) ==
  \E signal \in signals : includes(errorString, signal)

DefaultMaxAttempts == 3
DefaultBaseDelay == 5000
RateLimitDelay == 60000
NetworkDelay == 10000
JudgeRejectionDelay == 5000
UnknownDelay == 5000

\* retryDelay 0 stands for a JobError without retryDelay
JobError(type, message, retryable, retryDelay) ==
  [type |-> type, message |-> message, retryable |-> retryable,
   retryDelay |-> retryDelay]

NoError == JobError("none", {}, FALSE, 0)

classifyErrorNetworkFirst(message) ==
  LET errorString == toLowerCase(message)
  IN IF IncludesAny(errorString, NetworkSignals)
     THEN JobError("NETWORK_ERROR", message, TRUE, NetworkDelay)
     ELSE IF IncludesAny(errorString, RateLimitSignals)
     THEN JobError("RATE_LIMIT", message, TRUE, RateLimitDelay)
     ELSE IF IncludesAny(errorString, ValidationSignals)
     THEN JobError("VALIDATION_ERROR", message, FALSE, 0)
     ELSE IF IncludesAny(errorString, ApiSignals)
     THEN JobError("API_ERROR", message, FALSE, 0)
     ELSE IF IncludesAny(errorString, JudgeSignals)
     THEN JobError("JUDGE_REJECTION", message, TRUE, JudgeRejectionDelay)
     ELSE JobError("UNKNOWN", message, TRUE, UnknownDelay)

classifyError(message) ==
  LET errorString == toLowerCase(message)
  IN IF IncludesAny(errorString, RateLimitSignals)
     THEN JobError("RATE_LIMIT", message, TRUE, RateLimitDelay)
     ELSE IF IncludesAny(errorString, ValidationSignals)
     THEN JobError("VALIDATION_ERROR", message, FALSE, 0)
     ELSE IF IncludesAny(errorString, ApiSignals)
     THEN JobError("API_ERROR", message, FALSE, 0)
     ELSE IF IncludesAny(errorString, NetworkSignals)
     THEN JobError("NETWORK_ERROR", message, TRUE, NetworkDelay)
     ELSE IF IncludesAny(errorString, JudgeSignals)
     THEN JobError("JUDGE_REJECTION", message, TRUE, JudgeRejectionDelay)
     ELSE JobError("UNKNOWN", message, TRUE, UnknownDelay)

shouldRetryInclusive(error, attemptNumber, maxAttempts) ==
  IF ~error.retryable THEN FALSE
  ELSE IF attemptNumber > maxAttempts THEN FALSE
  ELSE TRUE

shouldRetry(error, attemptNumber, maxAttempts) ==
  IF ~error.retryable THEN FALSE
  ELSE IF attemptNumber >= maxAttempts THEN FALSE
  ELSE TRUE

\* Math.pow(2, n) for a natural n
RECURSIVE Pow2(_)
Pow2(n) == IF n = 0 THEN 1 ELSE 2 * Pow2(n - 1)

calculateRetryDelayNoOffset(error, attemptNumber, baseDelay) ==
  LET initialDelay == IF error.retryDelay # 0 THEN error.retryDelay
                      ELSE baseDelay
  IN initialDelay * Pow2(attemptNumber)

\* error.retryDelay || baseDelay, times 2 ^ (attemptNumber - 1)
calculateRetryDelay(error, attemptNumber, baseDelay) ==
  LET initialDelay == IF error.retryDelay # 0 THEN error.retryDelay
                      ELSE baseDelay
  IN initialDelay * Pow2(attemptNumber - 1)

\* the messages of the transient errors thrown inside worker handlers
WorkerErrors == {{<<"invalid", "lower">>}, {<<"timeout", "upper">>}}

\* const jobError = classifyError(error) in the catch of a worker handler
Caught(jobId, message) == [jobId |-> jobId, error |-> classifyError(message)]

NoThrown == [jobId |-> <<"auto", 0, 0>>, error |-> NoError]

\* ------------------------------------------------------------ queue substrate
\* verdicts, adds and checks are history: the verdicts the executions of a
\* judge-review job have persisted, the number of queue.add calls they have
\* made, and the number of completion checks the executions of a
\* format-insights job have run; pc and seen are the position of a handler
\* that is run await by await and what its completion check has read
\* Stock.companyName, Stock.ticker and SubSector.name of a stock
CompanyNameOf(stockId) == <<"companyName", stockId>>

TickerOf(stockId) == <<"ticker", stockId>>

SubSectorName == "SubSector.name"

\* the payload of the other queues has no ticker and no subSectorName
NewJob(queue, stockAnalysisId, stockId, attemptNumber, priority, delay, list) ==
  [queue |-> queue, state |-> "waiting", attemptsMade |-> 0,
   stockAnalysisId |-> stockAnalysisId, stockId |-> stockId,
   attemptNumber |-> attemptNumber, priority |-> priority, delay |-> delay,
   companyName |-> CompanyNameOf(stockId),
   ticker |-> IF queue = "stock-analysis" THEN TickerOf(stockId)
              ELSE <<"absent", 0>>,
   subSectorName |-> IF queue = "stock-analysis" THEN SubSectorName
                     ELSE "absent",
   stocks |-> list, verdicts |-> {}, adds |-> 0, checks |-> 0,
   pc |-> "idle", seen |-> FALSE]

\* the payload of a retry: ticker is the company name of the judge-review
\* job and subSectorName the literal 'Unknown'
RetryPayload(job, stockAnalysisId, attemptNumber) ==
  [NewJob("stock-analysis", stockAnalysisId, job.stockId, attemptNumber + 1,
          0, RetryDelay, <<>>)
     EXCEPT !.companyName = job.companyName,
            !.ticker = job.companyName,
            !.subSectorName = "Unknown"]

\* add with a job id that is already in the queue adds nothing
QueueAdd(q, jobId, job) ==
  IF jobId \in DOMAIN q THEN q ELSE q @@ (jobId :> job)

QueueAttempts(queue) ==
  CASE queue = "sector-research" -> SectorResearchAttempts
    [] queue = "stock-ranking" -> StockRankingAttempts
    [] queue = "stock-analysis" -> StockAnalysisAttempts
    [] queue = "judge-review" -> JudgeReviewAttempts
    [] queue = "format-insights" -> FormatInsightsAttempts

\* the handler returned: the job is completed
JobCompleted(q, jobId) ==
  [q EXCEPT ![jobId].state = "completed",
            ![jobId].attemptsMade = q[jobId].attemptsMade + 1]

\* the handler threw: the job is run again while attempts remain
JobThrew(q, jobId) ==
  [q EXCEPT ![jobId].state =
               IF q[jobId].attemptsMade + 1 < QueueAttempts(q[jobId].queue)
               THEN "waiting" ELSE "failed",
            ![jobId].attemptsMade = q[jobId].attemptsMade + 1]

Runnable(jobId, queue) ==
  /\ jobId \in DOMAIN jobs
  /\ jobs[jobId].queue = queue
  /\ jobs[jobId].state = "waiting"

\* ------------------------------------------------------------ storage
\* StockAnalysis.stockId is unique: create throws when the stock has a row
HasAnalysis(rows, stockId) == \E i \in 1..Len(rows) : rows[i].stockId = stockId

CanCreateAnalysisAlways(rows, stockId) == TRUE

CanCreateAnalysis(rows, stockId) == ~HasAnalysis(rows, stockId)

NewAnalysis(stockId) ==
  [stockId |-> stockId, status |-> "pending", attemptCount |-> 1,
   failureReason |-> "none", judgeReview |-> "none", insights |-> FALSE]

AnalysisOf(rows, stockId) == CHOOSE i \in 1..Len(rows) : rows[i].stockId = stockId

\* the stocks of a set in ascending rank order (ties in id order)
RECURSIVE OrderByRank(_, _)
OrderByRank(S, rk) ==
  IF S = {} THEN <<>>
  ELSE LET m == CHOOSE s \in S :
                  \A t \in S : rk[s] < rk[t] \/ (rk[s] = rk[t] /\ s <= t)
       IN <<m>> \o OrderByRank(S \ {m}, rk)

Slice(seq, n) == SubSeq(seq, 1, Min(n, Len(seq)))

Range(seq) == {seq[i] : i \in 1..Len(seq)}

\* ------------------------------------------------------------ initial state
NoRows == [x \in {} |-> x]

Idle == [pc |-> "idle", todo |-> <<>>, jobId |-> AutoJobId(0), stockId |-> 0]

InitWith(n, a, r, f) ==
  /\ stocks = 1..n
  /\ rank = [s \in 1..n |-> 0]
  /\ subStatus = "pending"
  /\ sa = <<>>
  /\ jobs = NoRows
  /\ jobStatus = NoRows
  /\ nextAuto = 1
  /\ approve = Idle
  /\ reanalyze = Idle
  /\ approvals = a
  /\ reanalyses = r
  /\ failures = f
  /\ thrown = NoThrown

WrapIdle ==
  [pc |-> "idle", maxAttempts |-> DefaultMaxAttempts, attempt |-> 0,
   calls |-> 0, error |-> {}, lastError |-> NoError, delay |-> 0]

\* a result without the optional error field
NoResultError == [present |-> FALSE, message |-> {}]

AiIdle ==
  [pc |-> "idle", attempt |-> 0, calls |-> 0, delayMs |-> AiDelayMs,
   lastError |-> {}, slept |-> 0, result |-> NoResultError]

NoStream ==
  [state |-> "none", id |-> 0, last |-> NoRows, events |-> <<>>,
   polls |-> <<>>, polled |-> 0, rejected |-> 0]

InitRest(st) ==
  /\ stream = NoStream
  /\ sectors = <<>>
  /\ subSectors = <<>>
  /\ starts = st
  /\ start = Idle
  /\ wrap = WrapIdle
  /\ ai = AiIdle

\* ------------------------------------------------------------ approve route
\* POST /api/subsector/[id]/approve, up to and including the add of the
\* ranking job (or, when every stock is ranked, the start of the top-5 loop)
NeedsRanking(S, rk) == S # {} /\ \E s \in S : rk[s] = 0

ApproveStart ==
  /\ approve.pc = "idle"
  /\ approvals > 0
  /\ approvals' = approvals - 1
  /\ subStatus' = "approved"
  /\ IF NeedsRanking(stocks, rank)
     THEN /\ jobs' = QueueAdd(jobs, AutoJobId(nextAuto),
                       NewJob("stock-ranking", 0, 0, 0, 0, 0,
                              OrderByRank(stocks, rank)))
          /\ nextAuto' = nextAuto + 1
          /\ approve' = [Idle EXCEPT !.pc = "track",
                                     !.jobId = AutoJobId(nextAuto)]
     ELSE /\ approve' = [Idle EXCEPT !.pc = "loop",
                           !.todo = Slice(OrderByRank(stocks, rank), TopCount)]
          /\ UNCHANGED <<jobs, nextAuto>>
  /\ UNCHANGED <<thrown, sectorVars, streamVars, wrapVars,
                 stocks, rank, sa, jobStatus, reanalyze, reanalyses, failures>>

\* createJobStatus(rankingJob.id, 'stock_ranking', id)
ApproveTrack ==
  /\ approve.pc = "track"
  /\ jobStatus' = createJobStatus(jobStatus, approve.jobId, "stock_ranking",
                                  "subSector")
  /\ approve' = Idle
  /\ UNCHANGED <<thrown, sectorVars, streamVars, wrapVars,
                 stocks, rank, subStatus, sa, jobs, nextAuto, reanalyze,
                 approvals, reanalyses, failures>>

\* one turn of the top-5 loop: create the StockAnalysis and add its job; a
\* unique violation ends the request with status 500
ApproveCreate ==
  /\ approve.pc = "loop"
  /\ LET stockId == Head(approve.todo) IN
     IF CanCreateAnalysis(sa, stockId)
     THEN /\ sa' = Append(sa, NewAnalysis(stockId))
          /\ jobs' = QueueAdd(jobs, AutoJobId(nextAuto),
                       NewJob("stock-analysis", Len(sa) + 1, stockId, 1, 0, 0,
                              <<>>))
          /\ nextAuto' = nextAuto + 1
          /\ approve' = [approve EXCEPT !.pc = "looptrack",
                                        !.jobId = AutoJobId(nextAuto),
                                        !.stockId = stockId]
     ELSE /\ approve' = Idle
          /\ UNCHANGED <<sa, jobs, nextAuto>>
  /\ UNCHANGED <<thrown, sectorVars, streamVars, wrapVars,
                 stocks, rank, subStatus, jobStatus, reanalyze, approvals,
                 reanalyses, failures>>

\* createJobStatus(analysisJob.id, 'stock_analysis', stock.id); after the last
\* stock the sub-sector becomes analyzing
ApproveLoopTrack ==
  /\ approve.pc = "looptrack"
  /\ jobStatus' = createJobStatus(jobStatus, approve.jobId, "stock_analysis",
                                  approve.stockId)
  /\ IF Tail(approve.todo) = <<>>
     THEN /\ subStatus' = "analyzing"
          /\ approve' = Idle
     ELSE /\ approve' = [approve EXCEPT !.pc = "loop",
                                        !.todo = Tail(approve.todo)]
          /\ UNCHANGED subStatus
  /\ UNCHANGED <<thrown, sectorVars, streamVars, wrapVars,
                 stocks, rank, sa, jobs, nextAuto, reanalyze, approvals,
                 reanalyses, failures>>

\* ------------------------------------------------------------ stock-ranking worker
IndexOf(list, s) == CHOOSE i \in 1..Len(list) : list[i] = s

AssignRanksZeroBased(rk, list) ==
  [s \in DOMAIN rk |->
     IF s \in Range(list) THEN IndexOf(list, s) - 1 ELSE rk[s]]

\* rankedStocks = stocks.map((stock, index) => rank index + 1), persisted
AssignRanks(rk, list) ==
  [s \in DOMAIN rk |-> IF s \in Range(list) THEN IndexOf(list, s) ELSE rk[s]]

\* the creates of Promise.all: every create whose stock has no row succeeds
RECURSIVE CreateAnalyses(_, _)
CreateAnalyses(rows, list) ==
  IF list = <<>> THEN rows
  ELSE CreateAnalyses(IF CanCreateAnalysis(rows, Head(list))
                      THEN Append(rows, NewAnalysis(Head(list)))
                      ELSE rows, Tail(list))

AllCreatable(rows, list) ==
  \A i \in 1..Len(list) : CanCreateAnalysis(rows, list[i])

\* one stock-analysis job per top-5 stock, priority = rank
RECURSIVE EnqueueAnalyses(_, _, _, _)
EnqueueAnalyses(q, rows, list, rk) ==
  IF list = <<>> THEN q
  ELSE LET stockId == Head(list)
           id == AnalysisOf(rows, stockId)
       IN EnqueueAnalyses(
            QueueAdd(q, StockJobId(id, 1),
                     NewJob("stock-analysis", id, stockId, 1, rk[stockId], 0,
                            <<>>)),
            rows, Tail(list), rk)

RankingFailPoints == {"start", "ranked", "created", "queued"}

ProcessStockRanking(jobId) ==
  /\ Runnable(jobId, "stock-ranking")
  /\ IF ~HasJobStatus(jobStatus, jobId)
     THEN \* markJobActive throws; the catch resets the sub-sector and its
          \* markJobFailed throws again
          /\ subStatus' = "pending"
          /\ jobs' = JobThrew(jobs, jobId)
          /\ UNCHANGED <<rank, sa, jobStatus, failures, thrown>>
     ELSE \E fp \in RankingFailPoints \cup {"none"}, message \in WorkerErrors :
          LET list == jobs[jobId].stocks
              top5 == Slice(list, TopCount)
              ranked == fp # "start"
              creating == fp \notin {"start", "ranked"}
              conflict == creating /\ ~AllCreatable(sa, top5)
              queued == fp \in {"queued", "none"} /\ ~conflict
              threw == fp # "none" \/ conflict
              rk == IF ranked THEN AssignRanks(rank, list) ELSE rank
              rows == IF creating THEN CreateAnalyses(sa, top5) ELSE sa
              reached == IF ~ranked THEN 20
                         ELSE IF ~creating \/ conflict THEN 70
                         ELSE IF ~queued THEN 80 ELSE 100
              active == updateJobProgress(markJobActive(jobStatus, jobId, 0),
                                          jobId, reached)
          IN /\ fp # "none" => failures > 0
             /\ failures' = IF fp # "none" THEN failures - 1 ELSE failures
             /\ thrown' = IF fp # "none" THEN Caught(jobId, message) ELSE thrown
             /\ rank' = rk
             /\ sa' = rows
             /\ subStatus' = IF threw THEN "pending" ELSE "analyzing"
             /\ jobStatus' = IF threw
                             THEN markJobFailed(active, jobId,
                                                "Stock ranking failed")
                             ELSE markJobCompleted(active, jobId)
             /\ jobs' = LET q == IF queued
                                 THEN EnqueueAnalyses(jobs, rows, top5, rk)
                                 ELSE jobs
                        IN IF threw THEN JobThrew(q, jobId)
                           ELSE JobCompleted(q, jobId)
  /\ UNCHANGED <<sectorVars, streamVars, wrapVars,
                 stocks, nextAuto, approve, reanalyze, approvals, reanalyses>>

\* ------------------------------------------------------------ re-analyze route
\* POST /api/stock/[id]/reanalyze: the read of the stock and the 400 answer
ReanalyzeCheck(stockId) ==
  /\ reanalyze.pc = "idle"
  /\ reanalyses > 0
  /\ reanalyses' = reanalyses - 1
  /\ reanalyze' = IF HasAnalysis(sa, stockId) THEN Idle
                  ELSE [Idle EXCEPT !.pc = "create", !.stockId = stockId]
  /\ UNCHANGED <<thrown, sectorVars, streamVars, wrapVars,
                 stocks, rank, subStatus, sa, jobs, jobStatus, nextAuto,
                 approve, approvals, failures>>

\* the create of the StockAnalysis and the add of its job
ReanalyzeCreate ==
  /\ reanalyze.pc = "create"
  /\ IF CanCreateAnalysis(sa, reanalyze.stockId)
     THEN /\ sa' = Append(sa, NewAnalysis(reanalyze.stockId))
          /\ jobs' = QueueAdd(jobs, AutoJobId(nextAuto),
                       NewJob("stock-analysis", Len(sa) + 1, reanalyze.stockId,
                              1, 0, 0, <<>>))
          /\ nextAuto' = nextAuto + 1
          /\ reanalyze' = [reanalyze EXCEPT !.pc = "track",
                                            !.jobId = AutoJobId(nextAuto)]
     ELSE /\ reanalyze' = Idle
          /\ UNCHANGED <<sa, jobs, nextAuto>>
  /\ UNCHANGED <<thrown, sectorVars, streamVars, wrapVars,
                 stocks, rank, subStatus, jobStatus, approve, approvals,
                 reanalyses, failures>>

\* createJobStatus(analysisJob.id, 'stock_analysis', id)
ReanalyzeTrack ==
  /\ reanalyze.pc = "track"
  /\ jobStatus' = createJobStatus(jobStatus, reanalyze.jobId, "stock_analysis",
                                  reanalyze.stockId)
  /\ reanalyze' = Idle
  /\ UNCHANGED <<thrown, sectorVars, streamVars, wrapVars,
                 stocks, rank, subStatus, sa, jobs, nextAuto, approve,
                 approvals, reanalyses, failures>>

\* ------------------------------------------------------------ tracker client
\* createJobStatus is exported by the queue module for whoever adds a job
\* (errorHandling.ts, "Always track jobs in database"); the workers add their
\* follow-up jobs without it, so a row for such a job exists only when a
\* client of the module records it.
JobTypeOf(queue) ==
  CASE queue = "sector-research" -> "sector_research"
    [] queue = "stock-ranking" -> "stock_ranking"
    [] queue = "stock-analysis" -> "stock_analysis"
    [] queue = "judge-review" -> "judge_review"
    [] queue = "format-insights" -> "format_insights"

TrackJob(jobId) ==
  /\ jobId \in DOMAIN jobs
  /\ jobId[1] # "auto"
  /\ jobs[jobId].state = "waiting"
  /\ ~HasJobStatus(jobStatus, jobId)
  /\ jobStatus' = createJobStatus(jobStatus, jobId, JobTypeOf(jobs[jobId].queue),
                                  jobs[jobId].stockAnalysisId)
  /\ UNCHANGED <<thrown, sectorVars, streamVars, wrapVars,
                 stocks, rank, subStatus, sa, jobs, nextAuto, approve,
                 reanalyze, approvals, reanalyses, failures>>

\* ------------------------------------------------------------ stock-analysis worker
AnalysisFailPoints == {"research", "queued"}

ProcessStockAnalysis(jobId) ==
  /\ Runnable(jobId, "stock-analysis")
  /\ LET job == jobs[jobId]
         id == job.stockAnalysisId
         n == job.attemptNumber
     IN IF ~HasJobStatus(jobStatus, jobId)
        THEN \* markJobActive throws; the catch marks the analysis and its
             \* markJobFailed throws again
             /\ sa' = [sa EXCEPT ![id].status = "review_failed",
                                 ![id].failureReason = "Stock analysis failed"]
             /\ jobs' = JobThrew(jobs, jobId)
             /\ UNCHANGED <<jobStatus, failures, thrown>>
        ELSE \E fp \in AnalysisFailPoints \cup {"none"},
                message \in WorkerErrors :
             LET queued == fp # "research"
                 threw == fp # "none"
                 analyzing == [sa EXCEPT ![id].status = "analyzing",
                                         ![id].attemptCount = n]
                 active == updateJobProgress(
                             markJobActive(jobStatus, jobId, 0), jobId,
                             IF queued THEN 90 ELSE 10)
                 q == IF queued
                      THEN QueueAdd(jobs, JudgeJobId(id, n),
                             NewJob("judge-review", id, job.stockId, n, 0, 0,
                                    <<>>))
                      ELSE jobs
             IN /\ threw => failures > 0
                /\ failures' = IF threw THEN failures - 1 ELSE failures
                /\ thrown' = IF threw THEN Caught(jobId, message) ELSE thrown
                /\ sa' = IF threw
                         THEN [analyzing EXCEPT
                                 ![id].status = "review_failed",
                                 ![id].failureReason = "Stock analysis failed"]
                         ELSE analyzing
                /\ jobStatus' = IF threw
                                THEN markJobFailed(active, jobId,
                                                   "Stock analysis failed")
                                ELSE markJobCompleted(active, jobId)
                /\ jobs' = IF threw THEN JobThrew(q, jobId)
                           ELSE JobCompleted(q, jobId)
  /\ UNCHANGED <<sectorVars, streamVars, wrapVars,
                 stocks, rank, subStatus, nextAuto, approve, reanalyze,
                 approvals, reanalyses>>

\* ------------------------------------------------------------ judge-review worker
RetryAllowedInclusive(attemptNumber) == attemptNumber <= MAX_RETRY_ATTEMPTS

\* if (attemptNumber < MAX_RETRY_ATTEMPTS): a retry is queued
RetryAllowed(attemptNumber) == attemptNumber < MAX_RETRY_ATTEMPTS

\* no jobId option: the substrate assigns a fresh id to every add
RetryJobIdFresh(stockAnalysisId, attemptNumber) ==
  <<"auto", Cardinality(DOMAIN jobs) + 1, attemptNumber + 1>>

\* jobId of the retry: stock-<stockAnalysisId>-attempt-<attemptNumber + 1>
RetryJobId(stockAnalysisId, attemptNumber) ==
  StockJobId(stockAnalysisId, attemptNumber + 1)

MarkExhaustedReasonOnly(rows, stockAnalysisId) ==
  [rows EXCEPT ![stockAnalysisId].failureReason =
                  "Judge rejected after 3 attempts"]

\* max retries exceeded: the analysis is marked as permanently failed
MarkExhausted(rows, stockAnalysisId) ==
  [rows EXCEPT ![stockAnalysisId].status = "review_failed",
               ![stockAnalysisId].failureReason =
                  "Judge rejected after 3 attempts"]

JudgeFailPoints == {"review", "queued"}

ProcessJudgeReview(jobId) ==
  /\ Runnable(jobId, "judge-review")
  /\ LET job == jobs[jobId]
         id == job.stockAnalysisId
         n == job.attemptNumber
     IN IF ~HasJobStatus(jobStatus, jobId)
        THEN \* markJobActive throws and so does the catch's markJobFailed
             /\ jobs' = JobThrew(jobs, jobId)
             /\ UNCHANGED <<sa, jobStatus, failures, thrown>>
        ELSE \E fp \in JudgeFailPoints \cup {"none"},
                verdict \in {"APPROVED", "REJECTED"},
                message \in WorkerErrors :
             LET reviewed == fp # "review"
                 threw == fp # "none"
                 approved == verdict = "APPROVED"
                 retry == ~approved /\ RetryAllowed(n)
                 ceiling == ~approved /\ ~RetryAllowed(n)
                 saved == [sa EXCEPT ![id].judgeReview = verdict]
                 rows == IF ~reviewed THEN sa
                         ELSE IF ceiling THEN MarkExhausted(saved, id)
                         ELSE saved
                 active == updateJobProgress(
                             markJobActive(jobStatus, jobId, 0), jobId,
                             IF ~reviewed THEN 20
                             ELSE IF ceiling THEN 70 ELSE 90)
                 noted == IF reviewed
                          THEN [jobs EXCEPT
                                  ![jobId].verdicts = @ \cup {verdict},
                                  ![jobId].adds = IF ceiling THEN @ ELSE @ + 1]
                          ELSE jobs
                 q == IF reviewed /\ approved
                      THEN QueueAdd(noted, FormatJobId(id),
                             NewJob("format-insights", id, job.stockId, n, 0, 0,
                                    <<>>))
                      ELSE IF reviewed /\ retry
                      THEN QueueAdd(noted, RetryJobId(id, n),
                             RetryPayload(job, id, n))
                      ELSE noted
             IN /\ threw => failures > 0
                /\ ~reviewed => approved
                /\ failures' = IF threw THEN failures - 1 ELSE failures
                /\ thrown' = IF threw THEN Caught(jobId, message) ELSE thrown
                /\ sa' = rows
                /\ jobStatus' = IF threw
                                THEN markJobFailed(active, jobId,
                                                   "Judge review failed")
                                ELSE markJobCompleted(active, jobId)
                /\ jobs' = IF threw THEN JobThrew(q, jobId)
                           ELSE JobCompleted(q, jobId)
  /\ UNCHANGED <<sectorVars, streamVars, wrapVars,
                 stocks, rank, subStatus, nextAuto, approve, reanalyze,
                 approvals, reanalyses>>

\* ------------------------------------------------------------ format-insights worker
\* subSector.stocks.filter((s) => s.rank <= 5)
TopStocksUnfiltered(S, rk) == S

TopStocks(S, rk) == {s \in S : rk[s] <= TopCount}

\* topStocks.every((stock) => stock.deepAnalysis?.status === 'completed')
AllCompleted(rows, S, rk) ==
  \A s \in TopStocks(S, rk) :
     HasAnalysis(rows, s) /\ rows[AnalysisOf(rows, s)].status = "completed"

CompletionCheckToggling(status, rows, S, rk) ==
  IF AllCompleted(rows, S, rk)
  THEN IF status = "completed" THEN "analyzing" ELSE "completed"
  ELSE status

\* if (allCompleted) prisma.subSector.update status 'completed'
CompletionCheck(status, rows, S, rk) ==
  IF AllCompleted(rows, S, rk) THEN "completed" ELSE status

FormatFailPoints == {"format", "saved", "cascaded"}

ProcessFormatInsights(jobId) ==
  /\ Runnable(jobId, "format-insights")
  /\ LET job == jobs[jobId]
         id == job.stockAnalysisId
     IN IF ~HasJobStatus(jobStatus, jobId)
        THEN \* markJobActive throws; the catch marks the analysis and its
             \* markJobFailed throws again
             /\ sa' = [sa EXCEPT ![id].status = "review_failed",
                                 ![id].failureReason = "Format insights failed"]
             /\ jobs' = JobThrew(jobs, jobId)
             /\ UNCHANGED <<subStatus, jobStatus, failures, thrown>>
        ELSE \E fp \in FormatFailPoints \cup {"none"},
                message \in WorkerErrors :
             LET saving == fp # "format"
                 cascading == fp \in {"cascaded", "none"}
                 threw == fp # "none"
                 saved == [sa EXCEPT ![id].status = "completed",
                                     ![id].insights = TRUE]
                 rows == IF saving THEN saved ELSE sa
                 active == updateJobProgress(
                             markJobActive(jobStatus, jobId, 0), jobId,
                             IF saving THEN 90 ELSE 20)
             IN /\ threw => failures > 0
                /\ failures' = IF threw THEN failures - 1 ELSE failures
                /\ thrown' = IF threw THEN Caught(jobId, message) ELSE thrown
                /\ subStatus' = IF cascading
                                THEN CompletionCheck(subStatus, rows, stocks,
                                                     rank)
                                ELSE subStatus
                /\ sa' = IF threw
                         THEN [rows EXCEPT
                                 ![id].status = "review_failed",
                                 ![id].failureReason = "Format insights failed"]
                         ELSE rows
                /\ jobStatus' = IF threw
                                THEN markJobFailed(active, jobId,
                                                   "Format insights failed")
                                ELSE markJobCompleted(active, jobId)
                /\ jobs' = LET noted == IF cascading
                                         THEN [jobs EXCEPT
                                                 ![jobId].checks = @ + 1]
                                         ELSE jobs
                           IN IF threw THEN JobThrew(noted, jobId)
                              ELSE JobCompleted(noted, jobId)
  /\ UNCHANGED <<sectorVars, streamVars, wrapVars,
                 stocks, rank, nextAuto, approve, reanalyze, approvals,
                 reanalyses>>

\* ------------------------------------------------------------ format-insights worker, await by await
\* The handler of a format-insights job as the steps between its awaits that
\* other executions can interleave with: the write of the status, the read
\* of the sub-sector's stocks, and the write of the SubSector.
FormatSave(jobId) ==
  /\ Runnable(jobId, "format-insights")
  /\ HasJobStatus(jobStatus, jobId)
  /\ sa' = [sa EXCEPT ![jobs[jobId].stockAnalysisId].status = "completed",
                      ![jobs[jobId].stockAnalysisId].insights = TRUE]
  /\ jobStatus' = updateJobProgress(markJobActive(jobStatus, jobId, 0),
                                    jobId, 70)
  /\ jobs' = [jobs EXCEPT ![jobId].state = "active", ![jobId].pc = "saved"]
  /\ UNCHANGED <<sectorVars, streamVars, wrapVars, thrown, failures,
                 stocks, rank, subStatus, nextAuto, approve, reanalyze,
                 approvals, reanalyses>>

FormatRead(jobId) ==
  /\ jobId \in DOMAIN jobs
  /\ jobs[jobId].state = "active"
  /\ jobs[jobId].pc = "saved"
  /\ jobStatus' = updateJobProgress(jobStatus, jobId, 90)
  /\ jobs' = [jobs EXCEPT ![jobId].pc = "read",
                          ![jobId].seen = AllCompleted(sa, stocks, rank)]
  /\ UNCHANGED <<sectorVars, streamVars, wrapVars, thrown, failures,
                 stocks, rank, subStatus, sa, nextAuto, approve, reanalyze,
                 approvals, reanalyses>>

FormatFinish(jobId) ==
  /\ jobId \in DOMAIN jobs
  /\ jobs[jobId].state = "active"
  /\ jobs[jobId].pc = "read"
  /\ subStatus' = IF jobs[jobId].seen THEN "completed" ELSE subStatus
  /\ jobStatus' = markJobCompleted(jobStatus, jobId)
  /\ jobs' = JobCompleted([jobs EXCEPT ![jobId].pc = "idle",
                                       ![jobId].checks = @ + 1], jobId)
  /\ UNCHANGED <<sectorVars, streamVars, wrapVars, thrown, failures,
                 stocks, rank, sa, nextAuto, approve, reanalyze,
                 approvals, reanalyses>>

\* an await of the handler throws: the catch marks the analysis and the
\* JobStatus, and the substrate runs the job again while attempts remain
FormatThrow(jobId) ==
  /\ jobId \in DOMAIN jobs
  /\ jobs[jobId].queue = "format-insights"
  /\ \/ jobs[jobId].state = "active"
     \/ jobs[jobId].state = "waiting" /\ HasJobStatus(jobStatus, jobId)
  /\ failures > 0
  /\ failures' = failures - 1
  /\ \E message \in WorkerErrors : thrown' = Caught(jobId, message)
  /\ sa' = [sa EXCEPT
              ![jobs[jobId].stockAnalysisId].status = "review_failed",
              ![jobs[jobId].stockAnalysisId].failureReason =
                 "Format insights failed"]
  /\ jobStatus' = markJobFailed(
                    IF jobs[jobId].state = "waiting"
                    THEN markJobActive(jobStatus, jobId, 0) ELSE jobStatus,
                    jobId, "Format insights failed")
  /\ jobs' = JobThrew([jobs EXCEPT ![jobId].state = "waiting",
                                   ![jobId].pc = "idle"], jobId)
  /\ UNCHANGED <<sectorVars, streamVars, wrapVars,
                 stocks, rank, subStatus, nextAuto, approve, reanalyze,
                 approvals, reanalyses>>

\* ------------------------------------------------------------ start route
\* POST /api/analysis/start: the create of the SectorAnalysis and the add of
\* its job; the job's stockAnalysisId field carries the sectorAnalysisId
StartCreate ==
  /\ start.pc = "idle"
  /\ starts > 0
  /\ starts' = starts - 1
  /\ sectors' = Append(sectors, [status |-> "in_progress", fullReport |-> FALSE])
  /\ jobs' = QueueAdd(jobs, AutoJobId(nextAuto),
               NewJob("sector-research", Len(sectors) + 1, 0, 0, 0, 0, <<>>))
  /\ nextAuto' = nextAuto + 1
  /\ start' = [Idle EXCEPT !.pc = "track", !.jobId = AutoJobId(nextAuto),
                           !.stockId = Len(sectors) + 1]
  /\ UNCHANGED <<pipelineVars, jobStatus, failures, thrown, subSectors,
                 streamVars, wrapVars>>

\* createJobStatus(job.id, 'sector_research', sectorAnalysis.id)
StartTrack ==
  /\ start.pc = "track"
  /\ jobStatus' = createJobStatus(jobStatus, start.jobId, "sector_research",
                                  start.stockId)
  /\ start' = Idle
  /\ UNCHANGED <<pipelineVars, jobs, nextAuto, failures, thrown, sectors,
                 subSectors, starts, streamVars, wrapVars>>

\* ------------------------------------------------------------ sector-research worker
\* for (const subSector of mockSubSectors) prisma.subSector.create, the first
\* n of them
RECURSIVE CreateSubSectors(_, _, _)
CreateSubSectors(rows, sectorAnalysisId, n) ==
  IF n = 0 THEN rows
  ELSE CreateSubSectors(
         Append(rows, [sectorAnalysisId |-> sectorAnalysisId,
                       status |-> "pending"]),
         sectorAnalysisId, n - 1)

SectorFailPoints == {"research", "report", "creating", "created"}

ProcessSectorResearchChaining(jobId) ==
  /\ Runnable(jobId, "sector-research")
  /\ HasJobStatus(jobStatus, jobId)
  /\ sectors' = [sectors EXCEPT ![jobs[jobId].stockAnalysisId].status =
                                  "completed"]
  /\ subSectors' = CreateSubSectors(subSectors, jobs[jobId].stockAnalysisId,
                                    MockSubSectorCount)
  /\ jobStatus' = markJobCompleted(jobStatus, jobId)
  /\ jobs' = JobCompleted(
               QueueAdd(jobs, AutoJobId(nextAuto),
                        NewJob("stock-ranking", 0, 0, 0, 0, 0,
                               OrderByRank(stocks, rank))), jobId)
  /\ nextAuto' = nextAuto + 1
  /\ UNCHANGED <<stocks, rank, subStatus, sa, approve, reanalyze, approvals,
                 reanalyses, failures, thrown, starts, start, streamVars,
                 wrapVars>>

ProcessSectorResearch(jobId) ==
  /\ Runnable(jobId, "sector-research")
  /\ LET id == jobs[jobId].stockAnalysisId
     IN IF ~HasJobStatus(jobStatus, jobId)
        THEN \* markJobActive throws; the catch marks the SectorAnalysis and
             \* its markJobFailed throws again
             /\ sectors' = [sectors EXCEPT ![id].status = "failed"]
             /\ jobs' = JobThrew(jobs, jobId)
             /\ UNCHANGED <<subSectors, jobStatus, failures, thrown>>
        ELSE \E fp \in SectorFailPoints \cup {"none"},
                message \in WorkerErrors :
             LET threw == fp # "none"
                 reported == fp # "research"
                 created == CASE fp \in {"research", "report"} -> 0
                              [] fp = "creating" -> MockSubSectorCount - 1
                              [] OTHER -> MockSubSectorCount
                 reached == CASE fp = "research" -> 10
                              [] fp \in {"report", "creating"} -> 70
                              [] OTHER -> 90
                 active == updateJobProgress(
                             markJobActive(jobStatus, jobId, 0), jobId, reached)
             IN /\ threw => failures > 0
                /\ failures' = IF threw THEN failures - 1 ELSE failures
                /\ thrown' = IF threw THEN Caught(jobId, message) ELSE thrown
                /\ sectors' = [sectors EXCEPT
                                 ![id].fullReport = @ \/ reported,
                                 ![id].status = IF threw THEN "failed"
                                                ELSE "completed"]
                /\ subSectors' = CreateSubSectors(subSectors, id, created)
                /\ jobStatus' = IF threw
                                THEN markJobFailed(active, jobId,
                                                   "Sector research failed")
                                ELSE markJobCompleted(active, jobId)
                /\ jobs' = IF threw THEN JobThrew(jobs, jobId)
                           ELSE JobCompleted(jobs, jobId)
  /\ UNCHANGED <<pipelineVars, nextAuto, starts, start, streamVars, wrapVars>>

\* ------------------------------------------------------------ tracker calls
\* the exported tracker operations, called with any job id and any integer
TrackerJobIds == {AutoJobId(1), AutoJobId(2)}

ProgressArgs == {-10, 0, 50, 100, 150}

trackerVars ==
  <<pipelineVars, jobs, nextAuto, failures, thrown, sectorVars, streamVars, wrapVars>>

CallCreateJobStatus(jobId) ==
  /\ ~HasJobStatus(jobStatus, jobId)
  /\ jobStatus' = createJobStatus(jobStatus, jobId, "stock_analysis", 0)
  /\ UNCHANGED trackerVars

CallMarkJobActive(jobId, progress) ==
  /\ HasJobStatus(jobStatus, jobId)
  /\ jobStatus' = markJobActive(jobStatus, jobId, progress)
  /\ UNCHANGED trackerVars

CallUpdateJobProgress(jobId, progress) ==
  /\ HasJobStatus(jobStatus, jobId)
  /\ jobStatus' = updateJobProgress(jobStatus, jobId, progress)
  /\ UNCHANGED trackerVars

CallMarkJobCompleted(jobId) ==
  /\ HasJobStatus(jobStatus, jobId)
  /\ jobStatus' = markJobCompleted(jobStatus, jobId)
  /\ UNCHANGED trackerVars

CallMarkJobFailed(jobId, errorMessage) ==
  /\ HasJobStatus(jobStatus, jobId)
  /\ jobStatus' = markJobFailed(jobStatus, jobId, errorMessage)
  /\ UNCHANGED trackerVars

\* ------------------------------------------------------------ withRetry
retryVars ==
  <<pipelineVars, jobs, jobStatus, nextAuto, failures, thrown, sectorVars,
    streamVars>>

\* withRetry(fn, {maxAttempts}) of the queue module is called; the two
\* wrappers share no state, one invocation is followed at a time
\* for (let attempt = 1; attempt <= maxAttempts; attempt++)
LoopContinues(attempt, maxAttempts) == attempt <= maxAttempts

\* "exhausted" is the throw after the loop
WithRetryStart(maxAttempts) ==
  /\ wrap.pc = "idle"
  /\ ai.pc = "idle"
  /\ wrap' = [WrapIdle EXCEPT
                !.pc = IF LoopContinues(1, maxAttempts) THEN "call"
                       ELSE "exhausted",
                !.maxAttempts = maxAttempts, !.attempt = 1]
  /\ UNCHANGED <<retryVars, ai>>

\* one turn of its loop: fn returns, or throws an error that is classified
WithRetryAttempt ==
  /\ wrap.pc = "call"
  /\ \/ wrap' = [wrap EXCEPT !.pc = "returned", !.calls = @ + 1]
     \/ \E message \in Messages :
          LET lastError == classifyError(message)
              caught == [wrap EXCEPT !.calls = @ + 1, !.error = message,
                                     !.lastError = lastError]
          IN wrap' = IF ~shouldRetry(lastError, wrap.attempt, wrap.maxAttempts)
                     THEN [caught EXCEPT !.pc = "thrown"]
                     ELSE [caught EXCEPT
                             !.delay = calculateRetryDelay(lastError,
                                         wrap.attempt, DefaultBaseDelay),
                             !.attempt = @ + 1,
                             !.pc = IF LoopContinues(wrap.attempt + 1,
                                                     wrap.maxAttempts)
                                    THEN "call" ELSE "exhausted"]
  /\ UNCHANGED <<retryVars, ai>>

\* the messages of the errors an AI call reports in its result
AiErrors == {{<<"unauthorized", "lower">>}, {<<"timeout", "lower">>}}

\* result.error of a call: absent, the empty string, or a message; the
\* empty set of fragments is the string without characters
AiResultErrors ==
  {NoResultError}
    \cup {[present |-> TRUE, message |-> m] : m \in {{}} \cup AiErrors}

AiWaitsInclusive(attempt, maxRetries) == attempt <= maxRetries

\* if (attempt < maxRetries): no wait after the last attempt
AiWaits(attempt, maxRetries) == attempt < maxRetries

\* the truth value of result.error in if (!result.error)
Truthy(error) == error.present /\ error.message # {}

\* withRetry(fn) of the AI client is called
AiRetryStart ==
  /\ ai.pc = "idle"
  /\ wrap.pc = "idle"
  /\ ai' = [AiIdle EXCEPT !.pc = "call", !.attempt = 1]
  /\ UNCHANGED <<retryVars, wrap>>

\* one turn of its loop: the result has no error, or it has one
AiRetryAttempt ==
  /\ ai.pc = "call"
  /\ \E error \in AiResultErrors :
       LET called == [ai EXCEPT !.calls = @ + 1, !.result = error]
           failed == [called EXCEPT !.lastError = error.message]
           waited == IF AiWaits(ai.attempt, AiMaxRetries)
                     THEN [failed EXCEPT !.slept = ai.delayMs,
                                         !.delayMs = ai.delayMs * 2]
                     ELSE failed
       IN ai' = IF ~Truthy(error)
                THEN [called EXCEPT !.pc = "returned"]
                ELSE IF LoopContinues(ai.attempt + 1, AiMaxRetries)
                THEN [waited EXCEPT !.attempt = @ + 1]
                ELSE [waited EXCEPT !.pc = "failed"]
  /\ UNCHANGED <<retryVars, wrap>>

\* ------------------------------------------------------------ stream route
\* GET /api/analysis/[id]/stream.  A poll is in flight from the moment its
\* queries have read the JobStatus rows until its loop has run; the loop has
\* no await and is one step.
streamFrame ==
  <<pipelineVars, jobs, jobStatus, nextAuto, thrown, sectorVars, wrapVars>>

\* controller.enqueue throws once the stream is no longer readable
CanEnqueueAlways(state) == TRUE

CanEnqueue(state) == state = "open"

JobEvent(event, jobId, row) ==
  [event |-> event, jobId |-> jobId, status |-> row.status,
   progress |-> row.progress]

PlainEvent(event) ==
  [event |-> event, jobId |-> <<"none", 0, 0>>, status |-> "none",
   progress |-> 0]

\* SubSector.sectorAnalysisId of the sub-sector that owns the stocks; the
\* SubSectors the sector-research worker creates have no stocks
OwnerOfStocks == 1

\* the table a relatedId points into: the routes pass the SectorAnalysis,
\* the SubSector and the Stock; the rows of the tracker client point to the
\* StockAnalysis of the job
RelatedTable(jobId, row) ==
  CASE row.jobType = "sector_research" -> "SectorAnalysis"
    [] row.jobType = "stock_ranking" -> "SubSector"
    [] row.jobType = "stock_analysis" /\ jobId[1] = "auto" -> "Stock"
    [] OTHER -> "StockAnalysis"

\* stockJobs: the ids of the stocks below the SectorAnalysis and of their
\* analyses, read at this poll
StockIdsBelow(id) == IF id = OwnerOfStocks THEN stocks ELSE {}

AnalysisIdsBelow(id) ==
  {i \in 1..Len(sa) : sa[i].stockId \in StockIdsBelow(id)}

\* const jobs: the rows whose relatedId is the SectorAnalysis
RelatedJobsOfSectorOnly(js, id) ==
  [j \in {k \in DOMAIN js :
            RelatedTable(k, js[k]) = "SectorAnalysis" /\ js[k].relatedId = id}
     |-> [status |-> js[j].status, progress |-> js[j].progress]]

\* relatedJobs: relatedId is the SectorAnalysis or is in stockJobs
RelatedJobs(js, id) ==
  [j \in {k \in DOMAIN js :
            \/ RelatedTable(k, js[k]) = "SectorAnalysis" /\ js[k].relatedId = id
            \/ /\ RelatedTable(k, js[k]) = "Stock"
               /\ js[k].relatedId \in StockIdsBelow(id)
            \/ /\ RelatedTable(k, js[k]) = "StockAnalysis"
               /\ js[k].relatedId \in AnalysisIdsBelow(id)}
     |-> [status |-> js[j].status, progress |-> js[j].progress]]

\* !lastState || status differs || progress differs
StateChanged(last, jobId, currentState) ==
  \/ jobId \notin DOMAIN last
  \/ last[jobId].status # currentState.status
  \/ last[jobId].progress # currentState.progress

EventsOfProgressOnly(jobId, row) == <<JobEvent("progress", jobId, row)>>

\* the events of one changed job: progress, then complete or error
EventsOf(jobId, row) ==
  <<JobEvent("progress", jobId, row)>>
    \o (IF row.status = "completed"
        THEN <<JobEvent("complete", jobId, row)>> ELSE <<>>)
    \o (IF row.status = "failed"
        THEN <<JobEvent("error", jobId, row)>> ELSE <<>>)

\* for (const job of relatedJobs) over the rows still to visit
RECURSIVE SendUpdates(_, _, _)
SendUpdates(st, snapshot, todo) ==
  IF todo = {} THEN st
  ELSE LET jobId == CHOOSE j \in todo : \A k \in todo : j[2] <= k[2]
           row == snapshot[jobId]
       IN SendUpdates(
            IF StateChanged(st.last, jobId, row)
            THEN [st EXCEPT
                    !.events = @ \o EventsOf(jobId, row),
                    !.last = [j \in DOMAIN st.last \cup {jobId} |->
                                IF j = jobId THEN row ELSE st.last[j]]]
            ELSE st,
            snapshot, todo \ {jobId})

AnyChanged(st, snapshot) ==
  \E jobId \in DOMAIN snapshot : StateChanged(st.last, jobId, snapshot[jobId])

RemoveAt(seq, i) == SubSeq(seq, 1, i - 1) \o SubSeq(seq, i + 1, Len(seq))

\* the stream is opened for an existing SectorAnalysis: the interval is set
\* and the connected event is sent
StreamConnect(id) ==
  /\ stream.state = "none"
  /\ id \in 1..Len(sectors)
  /\ stream' = [NoStream EXCEPT !.state = "open", !.id = id,
                                !.events = <<PlainEvent("connected")>>]
  /\ UNCHANGED <<streamFrame, failures>>

\* the interval fires and the queries of the poll read the rows
PollRead ==
  /\ stream.state = "open"
  /\ stream.polled < MaxPolls
  /\ Len(stream.polls) < MaxInFlight
  /\ stream' = [stream EXCEPT
                  !.polls = Append(@, RelatedJobs(jobStatus, stream.id)),
                  !.polled = @ + 1]
  /\ UNCHANGED <<streamFrame, failures>>

\* the loop of a poll in flight; on a stream that is no longer readable the
\* first sendEvent throws, and so does the sendEvent of the catch
PollSend(i) ==
  /\ i \in 1..Len(stream.polls)
  /\ LET snapshot == stream.polls[i]
         rest == [stream EXCEPT !.polls = RemoveAt(@, i)]
     IN stream' = IF CanEnqueue(stream.state)
                  THEN SendUpdates(rest, snapshot, DOMAIN snapshot)
                  ELSE IF AnyChanged(stream, snapshot)
                  THEN [rest EXCEPT !.rejected = @ + 1]
                  ELSE rest
  /\ UNCHANGED <<streamFrame, failures>>

\* a query of a poll in flight throws: the catch sends the plain error
\* event, which throws in its turn on a stream that is no longer readable
PollThrows(i) ==
  /\ i \in 1..Len(stream.polls)
  /\ failures > 0
  /\ failures' = failures - 1
  /\ LET rest == [stream EXCEPT !.polls = RemoveAt(@, i)]
     IN stream' = IF CanEnqueue(stream.state)
                  THEN [rest EXCEPT !.events = Append(@, PlainEvent("error"))]
                  ELSE [rest EXCEPT !.rejected = @ + 1]
  /\ UNCHANGED streamFrame

\* the subscriber disconnects: cancel() clears the interval
StreamCancel ==
  /\ stream.state = "open"
  /\ stream' = [stream EXCEPT !.state = "cancelled"]
  /\ UNCHANGED <<streamFrame, failures>>

\* ------------------------------------------------------------ specifications
\* the whole system: both triggers and every worker, no transient error
SystemInit ==
  /\ \E n \in 1..MaxStocks : InitWith(n, MaxApprovals, MaxReanalyze, 0)
  /\ InitRest(0)

SystemNext ==
  \/ ApproveStart
  \/ ApproveTrack
  \/ ApproveCreate
  \/ ApproveLoopTrack
  \/ \E stockId \in stocks : ReanalyzeCheck(stockId)
  \/ ReanalyzeCreate
  \/ ReanalyzeTrack
  \/ \E jobId \in DOMAIN jobs : TrackJob(jobId)
  \/ \E jobId \in DOMAIN jobs : ProcessStockRanking(jobId)
  \/ \E jobId \in DOMAIN jobs : ProcessStockAnalysis(jobId)
  \/ \E jobId \in DOMAIN jobs : ProcessJudgeReview(jobId)
  \/ \E jobId \in DOMAIN jobs : ProcessFormatInsights(jobId)

SpecSystem == SystemInit /\ [][SystemNext]_vars

\* the pipeline behind one approval, with transient errors in the workers
Init ==
  /\ \E n \in 1..MaxStocks : InitWith(n, 1, 0, MaxFailures)
  /\ InitRest(0)

Next ==
  \/ ApproveStart
  \/ ApproveTrack
  \/ \E jobId \in DOMAIN jobs : TrackJob(jobId)
  \/ \E jobId \in DOMAIN jobs : ProcessStockRanking(jobId)
  \/ \E jobId \in DOMAIN jobs : ProcessStockAnalysis(jobId)
  \/ \E jobId \in DOMAIN jobs : ProcessJudgeReview(jobId)
  \/ \E jobId \in DOMAIN jobs : ProcessFormatInsights(jobId)

Spec == Init /\ [][Next]_vars

\* the triggers and the ranking stage over a wide sub-sector
InitRank ==
  /\ \E n \in 1..MaxRankStocks :
        InitWith(n, MaxApprovals, MaxReanalyze, MaxFailures)
  /\ InitRest(0)

RankNext ==
  \/ ApproveStart
  \/ ApproveTrack
  \/ ApproveCreate
  \/ ApproveLoopTrack
  \/ \E stockId \in stocks : ReanalyzeCheck(stockId)
  \/ ReanalyzeCreate
  \/ ReanalyzeTrack
  \/ \E jobId \in DOMAIN jobs : ProcessStockRanking(jobId)

SpecRank == InitRank /\ [][RankNext]_vars

\* the start trigger and the sector-research stage
InitSector == InitWith(1, 0, 0, MaxFailures) /\ InitRest(MaxStarts)

SectorNext ==
  \/ StartCreate
  \/ StartTrack
  \/ \E jobId \in DOMAIN jobs : ProcessSectorResearch(jobId)

SpecSector == InitSector /\ [][SectorNext]_vars

\* the tracker operations called in any order with any arguments
InitTracker == InitWith(1, 0, 0, 0) /\ InitRest(0)

TrackerNext ==
  \/ \E jobId \in TrackerJobIds : CallCreateJobStatus(jobId)
  \/ \E jobId \in TrackerJobIds, progress \in ProgressArgs :
        CallMarkJobActive(jobId, progress)
  \/ \E jobId \in TrackerJobIds, progress \in ProgressArgs :
        CallUpdateJobProgress(jobId, progress)
  \/ \E jobId \in TrackerJobIds : CallMarkJobCompleted(jobId)
  \/ \E jobId \in TrackerJobIds :
        CallMarkJobFailed(jobId, "Stock analysis failed")

SpecTracker == InitTracker /\ [][TrackerNext]_vars

\* the two retry wrappers over every error message
InitErrors == InitWith(1, 0, 0, 0) /\ InitRest(0)

ErrorsNext ==
  \/ \E maxAttempts \in 0..MaxWrapAttempts : WithRetryStart(maxAttempts)
  \/ WithRetryAttempt
  \/ AiRetryStart
  \/ AiRetryAttempt

SpecErrors == InitErrors /\ [][ErrorsNext]_vars

\* fn settles and the timer of a wait fires
ErrorsFairness == WF_vars(WithRetryAttempt) /\ WF_vars(AiRetryAttempt)

SpecErrorsFair == SpecErrors /\ ErrorsFairness

\* the AI call of a turn settles and the timer of its wait fires
AiFairness == WF_vars(AiRetryAttempt)

SpecAiFair == SpecErrors /\ AiFairness

\* one subscriber of the stream of a sector analysis
InitStream == InitWith(1, 0, 0, MaxFailures) /\ InitRest(1)

StreamNext ==
  \/ StartCreate
  \/ StartTrack
  \/ \E jobId \in DOMAIN jobs : ProcessSectorResearch(jobId)
  \/ \E id \in 1..Len(sectors) : StreamConnect(id)
  \/ PollRead
  \/ \E i \in 1..Len(stream.polls) : PollSend(i)
  \/ \E i \in 1..Len(stream.polls) : PollThrows(i)
  \/ StreamCancel

SpecStream == InitStream /\ [][StreamNext]_vars

\* the manual trigger on a sub-sector that was never approved, and the
\* pipeline behind it
InitManual ==
  /\ \E n \in 1..MaxManualStocks : InitWith(n, 0, MaxReanalyze, 0)
  /\ InitRest(0)

ManualNext ==
  \/ \E stockId \in stocks : ReanalyzeCheck(stockId)
  \/ ReanalyzeCreate
  \/ ReanalyzeTrack
  \/ \E jobId \in DOMAIN jobs : TrackJob(jobId)
  \/ \E jobId \in DOMAIN jobs : ProcessStockAnalysis(jobId)
  \/ \E jobId \in DOMAIN jobs : ProcessJudgeReview(jobId)
  \/ \E jobId \in DOMAIN jobs : ProcessFormatInsights(jobId)

SpecManual == InitManual /\ [][ManualNext]_vars

\* the format-insights stage of a ranked sub-sector: every top-5 stock has
\* an approved analysis and a tracked format-insights job waiting; the jobs
\* of the earlier stages are left out, no step of this stage reads them
ApprovedAnalysis(stockId) ==
  [NewAnalysis(stockId) EXCEPT !.status = "analyzing",
                               !.judgeReview = "APPROVED"]

InitCascade ==
  /\ \E n \in 1..MaxCascadeStocks :
       /\ stocks = 1..n
       /\ rank = [s \in 1..n |-> s]
       /\ sa = [i \in 1..Min(n, TopCount) |-> ApprovedAnalysis(i)]
       /\ jobs = [j \in {FormatJobId(i) : i \in 1..Min(n, TopCount)} |->
                    NewJob("format-insights", j[2], j[2], 1, 0, 0, <<>>)]
       /\ jobStatus = [j \in {FormatJobId(i) : i \in 1..Min(n, TopCount)} |->
                         createJobStatus(NoRows, j, "format_insights", j[2])[j]]
  /\ subStatus = "analyzing"
  /\ nextAuto = 1
  /\ approve = Idle
  /\ reanalyze = Idle
  /\ approvals = 0
  /\ reanalyses = 0
  /\ failures = MaxFailures
  /\ thrown = NoThrown
  /\ InitRest(0)

CascadeNext ==
  \/ \E jobId \in DOMAIN jobs : FormatSave(jobId)
  \/ \E jobId \in DOMAIN jobs : FormatRead(jobId)
  \/ \E jobId \in DOMAIN jobs : FormatFinish(jobId)
  \/ \E jobId \in DOMAIN jobs : FormatThrow(jobId)

SpecCascade == InitCascade /\ [][CascadeNext]_vars

\* a worker runs every waiting job and every await of a handler settles
CascadeFairness ==
  \A i \in 1..TopCount :
    /\ WF_vars(FormatSave(FormatJobId(i)))
    /\ WF_vars(FormatRead(FormatJobId(i)))
    /\ WF_vars(FormatFinish(FormatJobId(i)))

SpecCascadeFair == SpecCascade /\ CascadeFairness

\* the three triggers with the two workers that run before any analysis
InitTriggers ==
  /\ \E n \in 1..MaxStocks :
       InitWith(n, MaxApprovals, MaxReanalyze, MaxFailures)
  /\ InitRest(1)

TriggersNext ==
  \/ StartCreate
  \/ StartTrack
  \/ \E jobId \in DOMAIN jobs : ProcessSectorResearch(jobId)
  \/ ApproveStart
  \/ ApproveTrack
  \/ ApproveCreate
  \/ ApproveLoopTrack
  \/ \E stockId \in stocks : ReanalyzeCheck(stockId)
  \/ ReanalyzeCreate
  \/ ReanalyzeTrack
  \/ \E jobId \in DOMAIN jobs : ProcessStockRanking(jobId)

SpecTriggers == InitTriggers /\ [][TriggersNext]_vars

\* one subscriber of the stream of a researched sector while its sub-sector
\* is approved, ranked and re-analysed
InitTree ==
  /\ InitWith(MaxStocks, 1, MaxReanalyze, 0)
  /\ stream = NoStream
  /\ sectors = <<[status |-> "completed", fullReport |-> TRUE]>>
  /\ subSectors = <<>>
  /\ starts = 0
  /\ start = Idle
  /\ wrap = WrapIdle
  /\ ai = AiIdle

TreeNext ==
  \/ \E id \in 1..Len(sectors) : StreamConnect(id)
  \/ PollRead
  \/ \E i \in 1..Len(stream.polls) : PollSend(i)
  \/ ApproveStart
  \/ ApproveTrack
  \/ \E stockId \in stocks : ReanalyzeCheck(stockId)
  \/ ReanalyzeCreate
  \/ ReanalyzeTrack
  \/ \E jobId \in DOMAIN jobs : TrackJob(jobId)
  \/ \E jobId \in DOMAIN jobs : ProcessStockRanking(jobId)
  \/ \E jobId \in DOMAIN jobs : ProcessStockAnalysis(jobId)

SpecTree == InitTree /\ [][TreeNext]_vars

\* the workers take every waiting job of their queue, and the approve route
\* runs to its end
AnalysisFairness ==
  /\ WF_vars(ApproveTrack)
  /\ WF_vars(\E jobId \in DOMAIN jobs : ProcessStockRanking(jobId))
  /\ WF_vars(\E jobId \in DOMAIN jobs : ProcessStockAnalysis(jobId))
  /\ WF_vars(\E jobId \in DOMAIN jobs : ProcessJudgeReview(jobId))
  /\ WF_vars(\E jobId \in DOMAIN jobs : ProcessFormatInsights(jobId))

SpecFair == Spec /\ AnalysisFairness

\* ------------------------------------------------------------ properties
Exhausted(i) ==
  /\ sa[i].status = "review_failed"
  /\ sa[i].failureReason = "Judge rejected after 3 attempts"

JobsOf(i, queue) ==
  {j \in DOMAIN jobs : jobs[j].queue = queue /\ jobs[j].stockAnalysisId = i}

RECURSIVE Executions(_)
Executions(J) ==
  IF J = {} THEN 0
  ELSE LET j == CHOOSE x \in J : TRUE
       IN jobs[j].attemptsMade + Executions(J \ {j})

\* the verdicts the judge has persisted for attempt n of analysis i
Verdicts(i, n) ==
  IF JudgeJobId(i, n) \in DOMAIN jobs THEN jobs[JudgeJobId(i, n)].verdicts
  ELSE {}

\* no job of analysis i is still to run
Settled(i) ==
  \A j \in DOMAIN jobs :
     jobs[j].stockAnalysisId = i => jobs[j].state # "waiting"

\* C1: every StockAnalysis has attemptCount between 1 and 3, and every
\* StockAnalysis the judge worker set to review_failed because of rejection
\* has attemptCount 3.
AttemptCountWithinCeiling ==
  \A i \in 1..Len(sa) :
     /\ sa[i].attemptCount \in 1..3
     /\ Exhausted(i) => sa[i].attemptCount = 3

ExhaustedAtThirdAttempt ==
  \E i \in 1..Len(sa) :
     /\ Exhausted(i)
     /\ JudgeJobId(i, 3) \in DOMAIN jobs
     /\ jobs[JudgeJobId(i, 3)].state = "completed"
     /\ sa[i].attemptCount = 3

\* C2: if the SubSector is completed, every stock of rank 1..5 has a
\* StockAnalysis whose status is completed.
CompletedSubSectorHasCompletedTop5 ==
  subStatus = "completed" =>
     \A s \in stocks :
        rank[s] \in 1..5 =>
           HasAnalysis(sa, s) /\ sa[AnalysisOf(sa, s)].status = "completed"

\* C3: an analysis started by the stock-ranking worker whose judge rejects
\* attempts 1 and 2 and approves attempt 3 ends, with no transient error,
\* completed with attemptCount 3 after three stock-analysis, three
\* judge-review and one format-insights executions.
RejectRejectApproveCompletes ==
  \A i \in 1..Len(sa) :
     ( /\ StockJobId(i, 1) \in DOMAIN jobs
       /\ failures = MaxFailures
       /\ Verdicts(i, 1) = {"REJECTED"}
       /\ Verdicts(i, 2) = {"REJECTED"}
       /\ Verdicts(i, 3) = {"APPROVED"}
       /\ Settled(i) )
     => /\ sa[i].status = "completed"
        /\ sa[i].attemptCount = 3
        /\ Executions(JobsOf(i, "stock-analysis")) = 3
        /\ Executions(JobsOf(i, "judge-review")) = 3
        /\ Executions(JobsOf(i, "format-insights")) = 1

\* C4: once the judge has rejected attempts 1, 2 and 3 the analysis is
\* review_failed with the reason that cites the exhausted retries, and
\* there is no fourth stock-analysis job; while the judge has approved
\* nothing there is no format-insights job and the status is not completed.
RejectedThrice(i) ==
  \A n \in 1..3 : Verdicts(i, n) = {"REJECTED"}

NeverApproved(i) ==
  \A j \in JobsOf(i, "judge-review") : "APPROVED" \notin jobs[j].verdicts

Returns(j) ==
  jobs[j].state = "waiting" /\ jobs'[j].state = "completed"

\* the handler of job j throws in this step
Throws(j) ==
  /\ jobs[j].state = "waiting"
  /\ jobs'[j].attemptsMade = jobs[j].attemptsMade + 1
  /\ jobs'[j].state # "completed"

\* C5: a stock-ranking job that runs to completion over the N stocks of the
\* sub-sector leaves ranks that are exactly 1..N, creates min(5,N)
\* StockAnalysis rows (pending, attemptCount 1) and adds min(5,N)
\* stock-analysis jobs, one per stock of rank 1..5 with attemptNumber 1 and
\* priority equal to the rank, none for a stock of rank above 5.
RankingRanksAndFansOut ==
  [][\A j \in DOMAIN jobs :
        (jobs[j].queue = "stock-ranking" /\ Returns(j)) =>
           LET n == Cardinality(stocks)
               created == (Len(sa) + 1)..Len(sa')
               added == DOMAIN jobs' \ DOMAIN jobs
           IN /\ {rank'[s] : s \in stocks} = 1..n
              /\ Len(sa') - Len(sa) = Min(5, n)
              /\ Cardinality(added) = Min(5, n)
              /\ \A i \in created :
                    /\ sa'[i].status = "pending"
                    /\ sa'[i].attemptCount = 1
                    /\ rank'[sa'[i].stockId] \in 1..5
              /\ \A s \in stocks :
                    rank'[s] \in 1..5 =>
                       \E i \in created :
                          /\ sa'[i].stockId = s
                          /\ StockJobId(i, 1) \in added
                          /\ jobs'[StockJobId(i, 1)].queue = "stock-analysis"
                          /\ jobs'[StockJobId(i, 1)].state = "waiting"
                          /\ jobs'[StockJobId(i, 1)].stockId = s
                          /\ jobs'[StockJobId(i, 1)].stockAnalysisId = i
                          /\ jobs'[StockJobId(i, 1)].attemptNumber = 1
                          /\ jobs'[StockJobId(i, 1)].priority = rank'[s]
              /\ \A a \in added : rank'[jobs'[a].stockId] \in 1..5
    ]_vars

SixStocksRanked ==
  /\ Cardinality(stocks) = 6
  /\ \E j \in DOMAIN jobs :
        jobs[j].queue = "stock-ranking" /\ jobs[j].state = "completed"
  /\ \E s \in stocks :
        /\ rank[s] = 6
        /\ ~HasAnalysis(sa, s)
        /\ \A j \in DOMAIN jobs : jobs[j].stockId # s
  /\ Cardinality({j \in DOMAIN jobs : jobs[j].queue = "stock-analysis"}) = 5

\* C6: each Stock has at most one StockAnalysis, and a StockAnalysis row, once
\* created, stays the row of its stock: no row is removed or replaced.
OneAnalysisPerStock ==
  [][/\ \A i, k \in 1..Len(sa') : sa'[i].stockId = sa'[k].stockId => i = k
     /\ Len(sa') >= Len(sa)
     /\ \A i \in 1..Len(sa) : sa'[i].stockId = sa[i].stockId
    ]_vars

\* a ranking job ran again over rows a previous execution had created
RankingRetriedOverExistingRows ==
  \E j \in DOMAIN jobs :
     /\ jobs[j].queue = "stock-ranking"
     /\ jobs[j].state = "failed"
     /\ Len(sa) = Min(5, Cardinality(stocks))
     /\ reanalyses = 0
     /\ approvals = 0

\* C7: once a StockAnalysis is review_failed no step changes its status to
\* analyzing or completed.
ReviewFailedIsTerminal ==
  [][\A i \in 1..Len(sa) :
        sa[i].status = "review_failed" =>
           sa'[i].status \notin {"analyzing", "completed"}
    ]_vars

\* C8: when the handler of a stock-analysis job throws, the StockAnalysis of
\* its payload is review_failed with a failure reason, the job's JobStatus is
\* failed, and the job is not run again.
StockAnalysisFailureRecorded ==
  [][\A j \in DOMAIN jobs :
        (jobs[j].queue = "stock-analysis" /\ Throws(j)) =>
           /\ sa'[jobs[j].stockAnalysisId].status = "review_failed"
           /\ sa'[jobs[j].stockAnalysisId].failureReason # "none"
           /\ HasJobStatus(jobStatus', j)
           /\ jobStatus'[j].status = "failed"
           /\ jobs'[j].state = "failed"
           /\ jobs'[j].attemptsMade = 1
    ]_vars

\* C9: a judge-review handler that returns leaves its JobStatus completed
\* whatever the verdict, and the JobStatus of a judge-review job becomes
\* failed only in a step in which the handler threw on a transient error.
JudgeReturnMarksCompleted ==
  [][\A j \in DOMAIN jobs :
        jobs[j].queue = "judge-review" =>
           /\ Returns(j) =>
                 /\ HasJobStatus(jobStatus', j)
                 /\ jobStatus'[j].status = "completed"
                 /\ jobStatus'[j].progress = 100
           /\ ( /\ HasJobStatus(jobStatus', j)
                /\ jobStatus'[j].status = "failed"
                /\ ~(HasJobStatus(jobStatus, j)
                     /\ jobStatus[j].status = "failed") )
              => Throws(j) /\ failures' = failures - 1
    ]_vars

JudgeReturnedOnEveryVerdict ==
  \E i \in 1..Len(sa) :
     /\ \A n \in {1, 3} :
           /\ JudgeJobId(i, n) \in DOMAIN jobs
           /\ jobs[JudgeJobId(i, n)].state = "completed"
           /\ jobs[JudgeJobId(i, n)].verdicts = {"REJECTED"}
           /\ jobStatus[JudgeJobId(i, n)].status = "completed"
     /\ Exhausted(i)
     /\ FormatJobId(i) \in DOMAIN jobs

\* C10: for every StockAnalysis and attempt number there is at most one
\* stock-analysis job, and it is executed at most once, also when the
\* judge-review job that adds it runs more than once.
OneJobPerAttempt ==
  \A i \in 1..Len(sa) :
     /\ \A j, k \in JobsOf(i, "stock-analysis") :
           jobs[j].attemptNumber = jobs[k].attemptNumber => j = k
     /\ \A j \in JobsOf(i, "stock-analysis") : jobs[j].attemptsMade <= 1

RetryAddedTwice ==
  \E j \in DOMAIN jobs :
     /\ jobs[j].queue = "judge-review"
     /\ jobs[j].verdicts = {"REJECTED"}
     /\ jobs[j].attemptNumber < 3
     /\ jobs[j].adds >= 2
     /\ jobs[RetryJobId(jobs[j].stockAnalysisId, jobs[j].attemptNumber)].attemptsMade = 1

\* the handler of job j runs in this step
Executes(j) == jobs'[j].attemptsMade = jobs[j].attemptsMade + 1

\* C11: a format-insights execution that starts with the SubSector completed
\* leaves it completed (so does the completion check applied twice) and
\* changes nothing but its own StockAnalysis, job and JobStatus: no rank, no
\* other StockAnalysis, no other job, no new job, no other JobStatus.
CompletionCascadeIdempotent ==
  [][\A j \in DOMAIN jobs :
        ( /\ jobs[j].queue = "format-insights"
          /\ Executes(j)
          /\ subStatus = "completed" )
        => /\ subStatus' = "completed"
           /\ CompletionCheck(CompletionCheck(subStatus, sa', stocks, rank),
                              sa', stocks, rank) = "completed"
           /\ rank' = rank
           /\ stocks' = stocks
           /\ Len(sa') = Len(sa)
           /\ \A i \in 1..Len(sa) :
                 i # jobs[j].stockAnalysisId => sa'[i] = sa[i]
           /\ DOMAIN jobs' = DOMAIN jobs
           /\ \A k \in DOMAIN jobs \ {j} : jobs'[k] = jobs[k]
           /\ DOMAIN jobStatus' = DOMAIN jobStatus
           /\ \A k \in DOMAIN jobStatus \ {j} : jobStatus'[k] = jobStatus[k]
    ]_vars

\* the format-insights job ran a second time and returned, the SubSector is
\* completed
CompletionCheckRanTwice ==
  \E j \in DOMAIN jobs :
     /\ jobs[j].queue = "format-insights"
     /\ jobs[j].attemptsMade = 2
     /\ jobs[j].checks = 2
     /\ jobs[j].state = "completed"
     /\ thrown.jobId = j
     /\ jobStatus[j].status = "completed"
     /\ subStatus = "completed"
     /\ sa[jobs[j].stockAnalysisId].status = "completed"

\* C12: the SubSector status changes only along pending -> approved,
\* approved -> analyzing, analyzing -> completed and analyzing -> pending.
\* A stock-ranking execution that throws is one step here, so its
\* approved -> (analyzing ->) pending is let through.
SubSectorTransitions ==
  {<<"pending", "approved">>, <<"approved", "analyzing">>,
   <<"analyzing", "completed">>, <<"analyzing", "pending">>}

SubSectorStatusFollowsLifecycle ==
  [][subStatus' # subStatus =>
        \/ <<subStatus, subStatus'>> \in SubSectorTransitions
        \/ /\ <<subStatus, subStatus'>> = <<"approved", "pending">>
           /\ \E j \in DOMAIN jobs :
                 jobs[j].queue = "stock-ranking" /\ Throws(j)
    ]_vars

\* C13: when a sector-research job completes, its SectorAnalysis is
\* completed and has at least 4 SubSectors, each pending; the status becomes
\* completed only in the step of a handler that has persisted its sub-sectors.
SubSectorsOf(rows, id) ==
  {k \in 1..Len(rows) : rows[k].sectorAnalysisId = id}

SectorResearchCompletesWithFour ==
  [][/\ \A j \in DOMAIN jobs :
           (jobs[j].queue = "sector-research" /\ Returns(j)) =>
              LET id == jobs[j].stockAnalysisId
              IN /\ sectors'[id].status = "completed"
                 /\ Cardinality(SubSectorsOf(subSectors', id)) >= 4
                 /\ \A k \in SubSectorsOf(subSectors', id) :
                       subSectors'[k].status = "pending"
     /\ \A id \in 1..Len(sectors) :
           (sectors[id].status # "completed"
              /\ sectors'[id].status = "completed") =>
              /\ Len(subSectors') > Len(subSectors)
              /\ \E j \in DOMAIN jobs :
                    /\ jobs[j].queue = "sector-research"
                    /\ jobs[j].stockAnalysisId = id
                    /\ Returns(j)
    ]_vars

\* C14: every job a worker handler adds gets, in the same step, a JobStatus
\* record with status waiting and progress 0, and a job added by a worker
\* has a JobStatus record whenever its handler runs.
WorkerAddedJobsAreTracked ==
  [][\A j \in DOMAIN jobs :
        Executes(j) =>
           /\ \A a \in DOMAIN jobs' \ DOMAIN jobs :
                 /\ HasJobStatus(jobStatus', a)
                 /\ jobStatus'[a].status = "waiting"
                 /\ jobStatus'[a].progress = 0
           /\ j[1] # "auto" => HasJobStatus(jobStatus, j)
    ]_vars

\* C15: the stored progress of every JobStatus is in 0..100 after any
\* sequence of tracker operations with any integer arguments.
ProgressWithinRange ==
  \A j \in DOMAIN jobStatus : jobStatus[j].progress \in 0..100

\* C16: the stored progress of a JobStatus never decreases.
ProgressNeverDecreases ==
  [][\A j \in DOMAIN jobStatus :
        jobStatus'[j].progress >= jobStatus[j].progress
    ]_vars

\* the texts of a message, whatever their case
Texts(message) == {f[1] : f \in message}

ExpectedKind(message) ==
  CASE Texts(message) \cap RateLimitSignals # {} -> "RATE_LIMIT"
    [] /\ Texts(message) \cap RateLimitSignals = {}
       /\ Texts(message) \cap ValidationSignals # {} -> "VALIDATION_ERROR"
    [] /\ Texts(message) \cap (RateLimitSignals \cup ValidationSignals) = {}
       /\ Texts(message) \cap ApiSignals # {} -> "API_ERROR"
    [] /\ Texts(message) \cap (RateLimitSignals \cup ValidationSignals
                                 \cup ApiSignals) = {}
       /\ Texts(message) \cap NetworkSignals # {} -> "NETWORK_ERROR"
    [] /\ Texts(message) \cap (Signals \ JudgeSignals) = {}
       /\ Texts(message) \cap JudgeSignals # {} -> "JUDGE_REJECTION"
    [] OTHER -> "UNKNOWN"

\* kind |-> <<retryable, delay in ms>>, no delay is 0
ExpectedPolicy(kind) ==
  CASE kind = "RATE_LIMIT" -> <<TRUE, 60000>>
    [] kind = "VALIDATION_ERROR" -> <<FALSE, 0>>
    [] kind = "API_ERROR" -> <<FALSE, 0>>
    [] kind = "NETWORK_ERROR" -> <<TRUE, 10000>>
    [] kind = "JUDGE_REJECTION" -> <<TRUE, 5000>>
    [] kind = "UNKNOWN" -> <<TRUE, 5000>>

\* withRetry has classified an error
Classified == wrap.lastError.type # "none"

\* C17: the classification of a caught message is the first match, over the
\* message in lower case, in the order RATE_LIMIT, VALIDATION_ERROR,
\* API_ERROR, NETWORK_ERROR, JUDGE_REJECTION, UNKNOWN, with the retryable flag
\* and delay of its kind; a message with a rate-limit or validation signal
\* is never NETWORK_ERROR; classifying the same message again gives the same
\* result.
ClassifierIsFirstMatch ==
  Classified =>
     /\ wrap.lastError.type = ExpectedKind(wrap.error)
     /\ wrap.lastError.message = wrap.error
     /\ <<wrap.lastError.retryable, wrap.lastError.retryDelay>> =
           ExpectedPolicy(wrap.lastError.type)
     /\ Texts(wrap.error) \cap (RateLimitSignals \cup ValidationSignals) # {}
           => wrap.lastError.type # "NETWORK_ERROR"
     /\ classifyError(wrap.error) = wrap.lastError

\* an upper-case validation signal next to a network signal was classified
ValidationBeatsNetwork ==
  /\ Classified
  /\ wrap.error = {<<"invalid", "upper">>, <<"timeout", "lower">>}
  /\ wrap.lastError.type = "VALIDATION_ERROR"
  /\ wrap.pc = "thrown"

\* C18: shouldRetry(error, attempt, maxAttempts) is true exactly when the
\* error is retryable and attempt < maxAttempts, for every classified error,
\* attempt and maxAttempts (3 included), and withRetry stops accordingly.
ShouldRetryAdmitsBelowMax ==
  Classified =>
     /\ \A attempt \in 1..(MaxWrapAttempts + 1), maxAttempts \in 1..MaxWrapAttempts :
           shouldRetry(wrap.lastError, attempt, maxAttempts)
              <=> (wrap.lastError.retryable /\ attempt < maxAttempts)
     /\ wrap.pc = "thrown"
           => (~wrap.lastError.retryable \/ wrap.attempt >= wrap.maxAttempts)
     /\ wrap.pc = "call"
           => (wrap.lastError.retryable /\ wrap.attempt <= wrap.maxAttempts)
     /\ wrap.calls <= wrap.maxAttempts

\* a retryable error was denied its retry at attempt 3 of 3
RetryableDeniedAtMax ==
  /\ wrap.pc = "thrown"
  /\ wrap.lastError.retryable
  /\ wrap.maxAttempts = DefaultMaxAttempts
  /\ wrap.attempt = 3
  /\ wrap.calls = 3

BaseDelays == {1000, 5000}

NonRetryableJobFailsFast ==
  [][\A j \in DOMAIN jobs :
        ( /\ Throws(j)
          /\ failures' = failures - 1
          /\ thrown'.jobId = j
          /\ thrown'.error.type \in {"VALIDATION_ERROR", "API_ERROR"} )
        => jobs'[j].state = "failed"
    ]_vars

\* ------------------------------------------------------------ C21
NewEvents == SubSeq(stream'.events, Len(stream.events) + 1, Len(stream'.events))

CountEvents(seq, event, jobId) ==
  Cardinality({n \in 1..Len(seq) :
                 seq[n].event = event /\ seq[n].jobId = jobId})

PairChanged(jobId, row) ==
  jobId \notin DOMAIN stream.last \/ stream.last[jobId] # row

PollSentWhatChanged(i) ==
  LET snapshot == stream.polls[i]
  IN /\ stream'.polls = RemoveAt(stream.polls, i)
     /\ \A n \in 1..Len(NewEvents) : NewEvents[n].jobId \in DOMAIN snapshot
     /\ \A jobId \in DOMAIN snapshot :
          LET row == snapshot[jobId]
              changed == PairChanged(jobId, row)
          IN /\ CountEvents(NewEvents, "progress", jobId)
                  = IF changed THEN 1 ELSE 0
             /\ CountEvents(NewEvents, "complete", jobId)
                  = IF changed /\ row.status = "completed" THEN 1 ELSE 0
             /\ CountEvents(NewEvents, "error", jobId)
                  = IF changed /\ row.status = "failed" THEN 1 ELSE 0
             /\ \A n \in 1..Len(NewEvents) :
                  NewEvents[n].jobId = jobId =>
                    /\ NewEvents[n].status = row.status
                    /\ NewEvents[n].progress = row.progress

\* C21: the loop of a poll on an open stream sends, for every related job
\* whose (status, progress) pair differs from the pair last sent for it,
\* exactly one progress event carrying the pair, plus exactly one complete
\* event when the status is completed and exactly one error event when it is
\* failed; for a job whose pair equals the pair last sent it sends nothing.
StreamSendsOneEventPerChange ==
  [][(/\ stream.state = "open"
      /\ Len(stream'.polls) < Len(stream.polls)
      /\ failures' = failures)
       => \E i \in 1..Len(stream.polls) : PollSentWhatChanged(i)]_vars

StreamSawEveryKindOfPoll ==
  /\ stream.state = "open"
  /\ stream.polls = <<>>
  /\ stream.polled = MaxPolls
  /\ \E jobId \in DOMAIN stream.last :
       /\ CountEvents(stream.events, "progress", jobId) = 3
       /\ CountEvents(stream.events, "error", jobId) = 1
       /\ CountEvents(stream.events, "complete", jobId) = 1

\* ------------------------------------------------------------ C22
\* C22: once the subscriber has disconnected no poll is started and no event
\* reaches the stream, not even from a poll that was in flight at the time.
NoEventAfterDisconnect ==
  [][stream.state = "cancelled"
       => /\ stream'.state = "cancelled"
          /\ stream'.events = stream.events
          /\ stream'.polled = stream.polled]_vars

InFlightPollRejectedAfterDisconnect ==
  /\ stream.state = "cancelled"
  /\ stream.rejected >= 1
  /\ stream.polls = <<>>

\* ------------------------------------------------------------ C23
AddedJobs == DOMAIN jobs' \ DOMAIN jobs

JudgeTookOneAction(j) ==
  LET id == jobs[j].stockAnalysisId
      n == jobs[j].attemptNumber
      verdict == sa'[id].judgeReview
      format == FormatJobId(id)
      again == StockJobId(id, n + 1)
  IN /\ \A k \in DOMAIN jobs \ {j} : jobs'[k] = jobs[k]
     /\ verdict \in {"APPROVED", "REJECTED"}
     /\ verdict = "APPROVED" =>
          /\ jobs'[j].adds = jobs[j].adds + 1
          /\ AddedJobs \subseteq {format}
          /\ format \in DOMAIN jobs'
          /\ jobs'[format].queue = "format-insights"
          /\ sa'[id].status = sa[id].status
     /\ (verdict = "REJECTED" /\ n < MAX_RETRY_ATTEMPTS) =>
          /\ jobs'[j].adds = jobs[j].adds + 1
          /\ AddedJobs \subseteq {again}
          /\ again \in DOMAIN jobs'
          /\ jobs'[again].queue = "stock-analysis"
          /\ jobs'[again].attemptNumber = n + 1
          /\ jobs'[again].delay = RetryDelay
          /\ sa'[id].status = sa[id].status
     /\ (verdict = "REJECTED" /\ n >= MAX_RETRY_ATTEMPTS) =>
          /\ jobs'[j].adds = jobs[j].adds
          /\ AddedJobs = {}
          /\ sa'[id].status = "review_failed"

\* C23: a judge-review execution that returns does exactly one of three
\* things: on APPROVED it adds one format-insights job and no stock-analysis
\* job; on REJECTED below attempt 3 it adds one stock-analysis job with
\* attemptNumber + 1 and no format-insights job, and leaves the status of the
\* StockAnalysis alone; on REJECTED at attempt 3 or later it adds no job and
\* sets the StockAnalysis to review_failed.
JudgeTakesExactlyOneAction ==
  [][\A j \in DOMAIN jobs :
       (jobs[j].queue = "judge-review" /\ Returns(j))
          => JudgeTookOneAction(j)]_vars

JudgeRetriedTwiceThenGaveUp ==
  \E i \in DOMAIN sa :
    /\ \A n \in 1..2 :
         /\ JudgeJobId(i, n) \in DOMAIN jobs
         /\ jobs[JudgeJobId(i, n)].state = "completed"
         /\ jobs[JudgeJobId(i, n)].adds = 1
         /\ StockJobId(i, n + 1) \in DOMAIN jobs
    /\ JudgeJobId(i, 3) \in DOMAIN jobs
    /\ jobs[JudgeJobId(i, 3)].state = "completed"
    /\ jobs[JudgeJobId(i, 3)].adds = 0
    /\ sa[i].status = "review_failed"
    /\ FormatJobId(i) \notin DOMAIN jobs

\* ------------------------------------------------------------ C29
\* C29: the stock-analysis job of attempt n + 1 of a StockAnalysis carries
\* the stockId, stockAnalysisId, companyName, ticker and subSectorName of the
\* job of attempt n.
RetryCarriesSamePayload ==
  \A j, k \in DOMAIN jobs :
    ( /\ jobs[j].queue = "stock-analysis"
      /\ jobs[k].queue = "stock-analysis"
      /\ jobs[k].stockAnalysisId = jobs[j].stockAnalysisId
      /\ jobs[k].attemptNumber = jobs[j].attemptNumber + 1 )
      => /\ jobs[k].stockId = jobs[j].stockId
         /\ jobs[k].companyName = jobs[j].companyName
         /\ jobs[k].ticker = jobs[j].ticker
         /\ jobs[k].subSectorName = jobs[j].subSectorName

\* ------------------------------------------------------------ C24
ReanalyzeCreated(stockId) ==
  /\ Len(sa') = Len(sa) + 1
  /\ SubSeq(sa', 1, Len(sa)) = sa
  /\ sa'[Len(sa')].stockId = stockId
  /\ sa'[Len(sa')].status = "pending"
  /\ sa'[Len(sa')].attemptCount = 1
  /\ Cardinality(AddedJobs) = 1
  /\ \A j \in AddedJobs :
       /\ jobs'[j].queue = "stock-analysis"
       /\ jobs'[j].stockId = stockId
       /\ jobs'[j].stockAnalysisId = Len(sa')
       /\ jobs'[j].attemptNumber = 1
  /\ \A j \in DOMAIN jobs : jobs'[j] = jobs[j]
  /\ jobStatus' = jobStatus

\* C24: a re-analyze trigger for a stock that has a StockAnalysis leaves
\* every StockAnalysis, JobStatus and queue as it was; only for a stock
\* without one does the trigger create a StockAnalysis (pending,
\* attemptCount 1) and add exactly one stock-analysis job with
\* attemptNumber 1.
ReanalyzeOnlyWithoutAnalysis ==
  [][/\ reanalyses' < reanalyses =>
          /\ UNCHANGED <<sa, jobs, jobStatus>>
          /\ reanalyze'.pc = "create" => ~HasAnalysis(sa, reanalyze'.stockId)
          /\ (\A stockId \in stocks : HasAnalysis(sa, stockId))
                => reanalyze'.pc = "idle"
     /\ (reanalyze.pc = "create" /\ reanalyze' # reanalyze) =>
          IF HasAnalysis(sa, reanalyze.stockId)
          THEN UNCHANGED <<sa, jobs, jobStatus>> /\ reanalyze'.pc = "idle"
          ELSE ReanalyzeCreated(reanalyze.stockId)
     /\ (reanalyze.pc = "track" /\ reanalyze' # reanalyze) =>
          UNCHANGED <<sa, jobs>>
    ]_vars

ReanalyzeRejectedForAnalysedStock ==
  /\ reanalyses < MaxReanalyze
  /\ reanalyze.pc = "idle"
  /\ \A stockId \in stocks : HasAnalysis(sa, stockId)
  /\ \A j \in DOMAIN jobs :
       jobs[j].queue = "stock-analysis" => j = StockJobId(jobs[j].stockAnalysisId, 1)

\* ------------------------------------------------------------ C27
\* C27: when the handler of a stock-ranking job throws, the SubSector is
\* pending again, the job's JobStatus is failed with the error message, and
\* the failure reaches the substrate (the attempt is counted).
RankingFailureRollsBack ==
  [][\A j \in DOMAIN jobs :
        (jobs[j].queue = "stock-ranking" /\ Throws(j)) =>
           /\ subStatus' = "pending"
           /\ HasJobStatus(jobStatus', j)
           /\ jobStatus'[j].status = "failed"
           /\ jobStatus'[j].errorMessage # "none"
    ]_vars

\* ------------------------------------------------------------ C30
\* C30: whenever the handler of a job of any queue throws, the job's
\* JobStatus is failed with an error message after the execution.
WorkerFailureRecorded ==
  [][\A j \in DOMAIN jobs :
        Throws(j) =>
           /\ HasJobStatus(jobStatus', j)
           /\ jobStatus'[j].status = "failed"
           /\ jobStatus'[j].errorMessage # "none"
    ]_vars

\* ------------------------------------------------------------ C26
RankedTop == {s \in stocks : rank[s] >= 1 /\ rank[s] <= TopCount}

\* C26: the completion check counts exactly the stocks of rank 1 to 5: a
\* step that makes the SubSector completed does so on ranked stocks that all
\* have a completed StockAnalysis, never on stocks of rank 0.
CompletedOnRankedStocksOnly ==
  [][(subStatus # "completed" /\ subStatus' = "completed")
       => /\ RankedTop # {}
          /\ \A s \in RankedTop :
               /\ HasAnalysis(sa', s)
               /\ sa'[AnalysisOf(sa', s)].status = "completed"]_vars

\* ------------------------------------------------------------ C25
AllTopCompleted ==
  \A s \in RankedTop :
    HasAnalysis(sa, s) /\ sa[AnalysisOf(sa, s)].status = "completed"

\* C25: if the StockAnalysis of every top-5 stock of the sub-sector ends up
\* completed, the SubSector is eventually completed, however the writes and
\* reads of the format-insights executions interleave.
CascadeEventuallyCompletes ==
  <>[]AllTopCompleted => <>(subStatus = "completed")

OverlappingExecutionsCompleted ==
  /\ subStatus = "completed"
  /\ AllTopCompleted
  /\ \A j \in DOMAIN jobs : jobs[j].state = "completed"
  /\ \E a, b \in DOMAIN jobs :
       /\ ~jobs[a].seen
       /\ jobs[b].seen

WrapSettled == wrap.pc \in {"returned", "thrown", "exhausted"}

\* what every state of an invocation of withRetry satisfies
WithRetryWithinBudget ==
  /\ wrap.calls <= Max(wrap.maxAttempts, 0)
  /\ wrap.pc = "call" => wrap.calls = wrap.attempt - 1
  /\ wrap.pc = "returned" => wrap.calls = wrap.attempt
  /\ wrap.pc = "thrown" =>
       /\ wrap.calls = wrap.attempt
       /\ ~wrap.lastError.retryable \/ wrap.attempt = wrap.maxAttempts
  /\ (wrap.pc = "call" /\ wrap.attempt > 1) =>
       /\ wrap.lastError = classifyError(wrap.error)
       /\ wrap.delay = calculateRetryDelay(wrap.lastError, wrap.attempt - 1,
                                           DefaultBaseDelay)

\* fn is not invoked again once withRetry has returned or thrown
WithRetryStopsWhenSettled == [][WrapSettled => wrap' = wrap]_vars

WithRetryTerminates == (wrap.pc = "call") ~> WrapSettled

AiSettled == ai.pc \in {"returned", "failed"}

AiWithinBudget ==
  /\ ai.calls <= AiMaxRetries
  /\ ai.pc = "call" =>
       /\ ai.calls = ai.attempt - 1
       /\ ai.attempt = 2 => ai.slept = 1000
       /\ ai.attempt = 3 => ai.slept = 2000
  /\ ai.pc = "returned" => ai.calls = ai.attempt /\ ~Truthy(ai.result)
  /\ ai.pc = "failed" =>
       /\ ai.calls = AiMaxRetries
       /\ Truthy(ai.result)
       /\ ai.slept = 2000

\* C32: the AI-call wrapper makes at most 3 calls, waits 1 s and then 2 s
\* between them, returns the first result whose error is absent or empty
\* and makes no call after it, and after 3 results with an error it returns
\* an error result; it always settles.
AiWrapperBoundedBackoff ==
  /\ []AiWithinBudget
  /\ [][AiSettled => ai' = ai]_vars
  /\ (ai.pc = "call") ~> AiSettled

AiFailedAfterThreeCalls ==
  /\ ai.pc = "failed"
  /\ ai.calls = 3
  /\ ai.slept = 2000

\* ------------------------------------------------------------ C33
PollWasRead == stream'.polled = stream.polled + 1

LatestPoll == stream'.polls[Len(stream'.polls)]

\* the rows that point to the SectorAnalysis of the stream, or to a Stock or
\* a StockAnalysis below it
PointsBelow(jobId, row) ==
  \/ RelatedTable(jobId, row) = "SectorAnalysis" /\ row.relatedId = stream.id
  \/ /\ RelatedTable(jobId, row) = "Stock"
     /\ stream.id = OwnerOfStocks
     /\ row.relatedId \in stocks
  \/ /\ RelatedTable(jobId, row) = "StockAnalysis"
     /\ stream.id = OwnerOfStocks
     /\ row.relatedId \in 1..Len(sa)

\* C33: every poll reads the rows that point to the SectorAnalysis or to a
\* Stock or StockAnalysis that is below it at that moment, each with its
\* current status and progress; a row the stream has not reported yet gets
\* its progress event from the poll that read it; and the connected event is
\* the first event of the stream.
StreamFollowsGrowingHierarchy ==
  /\ [][PollWasRead =>
          \A j \in DOMAIN jobStatus :
            PointsBelow(j, jobStatus[j]) =>
              /\ j \in DOMAIN LatestPoll
              /\ LatestPoll[j].status = jobStatus[j].status
              /\ LatestPoll[j].progress = jobStatus[j].progress]_vars
  /\ [][(stream.state = "open" /\ Len(stream'.polls) < Len(stream.polls)) =>
          \E i \in 1..Len(stream.polls) :
            /\ stream'.polls = RemoveAt(stream.polls, i)
            /\ \A j \in DOMAIN stream.polls[i] \ DOMAIN stream.last :
                 CountEvents(NewEvents, "progress", j) = 1]_vars
  /\ [](stream.state # "none" =>
          /\ stream.events[1].event = "connected"
          /\ \A n \in 2..Len(stream.events) :
               stream.events[n].event # "connected")

\* two polls in flight: the first read before the row of a stock's job
\* existed, the second read it
RowCreatedBetweenTwoPolls ==
  /\ Len(stream.polls) = 2
  /\ \E j \in DOMAIN stream.polls[2] \ DOMAIN stream.polls[1] :
       RelatedTable(j, jobStatus[j]) \in {"Stock", "StockAnalysis"}

\* ------------------------------------------------------------ C38
\* C38: every poll reads every JobStatus row of the pipeline below the
\* SectorAnalysis of the stream, the row of a stock-ranking job, which
\* points to the SubSector, included.
StreamSeesRankingJob ==
  [][PollWasRead =>
       \A j \in DOMAIN jobStatus :
         ( \/ PointsBelow(j, jobStatus[j])
           \/ /\ RelatedTable(j, jobStatus[j]) = "SubSector"
              /\ stream.id = OwnerOfStocks )
           => j \in DOMAIN LatestPoll]_vars

\* ------------------------------------------------------------ C37
\* C37: overlapping polls of one stream emit no change twice: the job's
\* completion, which happens once, produces one complete event, and a later
\* poll never emits a pair that is older than the pair already sent.
OverlappingPollsEmitOnce ==
  /\ [](\A j \in DOMAIN jobStatus :
          CountEvents(stream.events, "complete", j) <= 1)
  /\ [][\A n \in 1..Len(NewEvents) :
          NewEvents[n].event = "progress" =>
            \/ NewEvents[n].jobId \notin DOMAIN jobStatus
            \/ jobStatus[NewEvents[n].jobId].status # "completed"
            \/ NewEvents[n].status = "completed"
            \/ CountEvents(stream.events, "complete", NewEvents[n].jobId) = 0]_vars

\* ------------------------------------------------------------ C34
\* C34: failed is final for a JobStatus: a row whose status is failed never
\* becomes active or completed again.
FailedJobStatusIsFinal ==
  [][\A j \in DOMAIN jobStatus :
       jobStatus[j].status = "failed" =>
         jobStatus'[j].status \notin {"active", "completed"}]_vars

\* ------------------------------------------------------------ C40
\* C40: running a sector-research job again does not repeat its effects: a
\* completed SectorAnalysis owns one SubSector per identified group, and it
\* becomes completed from in_progress, never from failed.
SectorRetryHasNoDuplicateEffects ==
  /\ [](\A id \in 1..Len(sectors) :
          sectors[id].status = "completed" =>
            Cardinality(SubSectorsOf(subSectors, id)) = MockSubSectorCount)
  /\ [][\A id \in 1..Len(sectors) :
          (sectors[id].status # "completed" /\ sectors'[id].status = "completed")
            => sectors[id].status = "in_progress"]_vars

\* ------------------------------------------------------------ C36
\* C36: a stock-ranking job that threw after it had created StockAnalysis
\* rows completes when it is run again and meets no new error, and the
\* second execution adds no second row for a stock.
RankingRetrySucceeds ==
  [][\A j \in DOMAIN jobs :
       ( /\ jobs[j].queue = "stock-ranking"
         /\ jobs[j].state = "waiting"
         /\ jobs[j].attemptsMade > 0
         /\ jobs'[j].attemptsMade = jobs[j].attemptsMade + 1
         /\ HasJobStatus(jobStatus, j)
         /\ failures' = failures )
         => /\ jobs'[j].state = "completed"
            /\ \A i, k \in 1..Len(sa') : sa'[i].stockId = sa'[k].stockId => i = k
    ]_vars

\* ------------------------------------------------------------ C39
\* C39: a job added by the start, approve or re-analyze trigger is executed
\* only once its JobStatus exists: no handler starts on a trigger's job
\* whose record has not been created yet.
JobStatusExistsBeforeWorker ==
  [][\A j \in DOMAIN jobs :
       ( /\ j[1] = "auto"
         /\ jobs[j].state = "waiting"
         /\ jobs'[j].attemptsMade = jobs[j].attemptsMade + 1 )
         => HasJobStatus(jobStatus, j)]_vars

\* ------------------------------------------------------------ C35
AnalysisEnqueued(id) ==
  \E j \in DOMAIN jobs :
     jobs[j].queue = "stock-analysis" /\ jobs[j].stockAnalysisId = id

AnalysisSettled(id) ==
  id <= Len(sa) /\ sa[id].status \in {"completed", "review_failed"}

\* C35: with the queues served fairly, every StockAnalysis that got a
\* stock-analysis job ends completed or review_failed and keeps that status,
\* and no more than three stock-analysis jobs are added for it.
AnalysisEventuallySettles ==
  /\ \A id \in 1..MaxStocks :
       [](AnalysisEnqueued(id) => <>[]AnalysisSettled(id))
  /\ [][\A id \in 1..Len(sa) :
          AnalysisSettled(id) => sa'[id].status = sa[id].status]_vars
  /\ [](\A id \in 1..Len(sa) :
          Cardinality({j \in DOMAIN jobs :
                         /\ jobs[j].queue = "stock-analysis"
                         /\ jobs[j].stockAnalysisId = id}) <= MAX_RETRY_ATTEMPTS)
====
